---------------------------- MODULE Spec2Model ----------------------------
(***************************************************************************)
(* Model of the daq-radio telemetry pipeline.                              *)
(*                                                                         *)
(*   universal-telemetry-software/src/data.py                              *)
(*     car mode  : can_reader -> queue -> udp_sender (batch, seq_num,      *)
(*                 sendto, ring buffer) and the TCP resend server          *)
(*     base mode : udp_receiver (gap tracking, publish), missing_reporter  *)
(*                 (TCP recovery client), stats_publisher                  *)
(*   pecan/Backend/app.py, pecan/app.py                                    *)
(*     CAN_MESSAGES history appended under `lock` by the pipe listener and *)
(*     by /api/import, read under `lock` by update_table                   *)
(*                                                                         *)
(* Time is a discrete clock `now`.  Program constants that are too large   *)
(* to enumerate (BATCH_SIZE = 20, MISSING_MAX = 1000, ...) are scaled      *)
(* down; every property is stated relative to the named value.            *)
(***************************************************************************)
EXTENDS Integers, Sequences, FiniteSets, TLC

(***************************************************************************)
(* Scaled program constants and model bounds                               *)
(***************************************************************************)
\* data.py:18  BATCH_SIZE = 20, scaled
BATCH_SIZE == 3
\* data.py:19  BATCH_TIMEOUT = 0.05 s, in clock ticks
BATCH_TIMEOUT == 1
\* data.py:20  BUFFER_DURATION = 60 s, in clock ticks
BUFFER_DURATION == 1
\* data.py:227 the literal 1000 that caps missing_seqs, scaled
MISSING_MAX == 2
\* data.py:261 the literal 100 of sorted(missing_seqs)[-100:], scaled
RESEND_MAX == 1
\* pecan/Backend/app.py:22  MESSAGE_HISTORY_LIMIT = 1000, scaled
MESSAGE_HISTORY_LIMIT == 2

\* the clock stops at MaxTime
MaxTime == 4
\* frames the CAN source produces in one run
MaxFrames == 4
\* frames the CAN source produces in one run of the joined nodes
LinkFrames == 3
\* datagrams the receiver processes in one run
MaxDeliveries == 4
\* system_stats messages published in one run
MaxStatsTicks == 2
\* frames that reach the viewer backend's decoder in one run
MaxMessages == 4
\* pecan/Backend/app.py:51  Queue(maxsize=1000), scaled
SSE_QUEUE_MAX == 2
\* the largest millisecond timestamp datetime.fromtimestamp() converts
\* (year 9999, 253402300799999 ms), scaled
DATETIME_MAX_MS == 5

\* struct format "8s": the payload field is exactly 8 bytes wide
PAYLOAD_WIDTH == 8

\* no value: Python's None for expected_seq
NoSeq == 0 - 1

(***************************************************************************)
(* Small helpers                                                           *)
(***************************************************************************)
Min(a, b) == IF a <= b THEN a ELSE b

\* the second argument taken whatever the first: expected_seq = seq + 1
MaxTakesLast(a, b) == b

Max(a, b) == IF a >= b THEN a ELSE b

SetMin(S) == CHOOSE x \in S : \A y \in S : x <= y

SetMax(S) == CHOOSE x \in S : \A y \in S : x >= y

Range(s) == { s[i] : i \in 1..Len(s) }

\* sorted(list(S)): the ascending sequence of a finite set of integers
RECURSIVE Sorted(_)
Sorted(S) ==
    IF S = {} THEN << >>
    ELSE LET m == SetMin(S) IN << m >> \o Sorted(S \ {m})

\* lst[:k]: the first k elements (all of them when shorter)
Head_k(lst, k) ==
    IF Len(lst) <= k THEN lst ELSE SubSeq(lst, 1, k)

\* lst[-k:] for k > 0: the last k elements (all of them when shorter)
Tail_k(lst, k) ==
    IF Len(lst) <= k THEN lst ELSE SubSeq(lst, Len(lst) - k + 1, Len(lst))

(***************************************************************************)
(* Frames and the codec (CANMessage.pack / unpack, hex on the TCP path)    *)
(***************************************************************************)
\* (can_id, data) of the frames can_reader puts on the queue: the
\* simulation branch makes an id of sim_ids with 8 random bytes
\* (data.py:102-109); the hardware branch passes msg.arbitration_id and
\* msg.data, whose length is the frame's DLC, 0..8 (data.py:93-95)
CanFrames == { << 192, << 1, 2, 3, 4, 5, 6, 7, 255 >> >>,
               << 768, << 16, 32, 171 >> >> }

\* struct.pack("8s", data): truncated to 8 bytes, right-padded with zeros
Pack8s(data) ==
    [ i \in 1..PAYLOAD_WIDTH |-> IF i <= Len(data) THEN data[i] ELSE 0 ]

\* CANMessage.pack: struct.pack("!dI8s", ...), the 20-byte wire record
Pack(m) ==
    [ ts |-> m.timestamp, id |-> m.can_id, d |-> Pack8s(m.data) ]

\* CANMessage.unpack: the three fields of a 20-byte wire record
Unpack(b) ==
    [ timestamp |-> b.ts, can_id |-> b.id, data |-> b.d ]

\* bytes.hex(): two hexadecimal digits per byte, high nibble first
Hex(data) ==
    [ i \in 1..(2 * Len(data)) |->
        IF i % 2 = 1 THEN data[(i + 1) \div 2] \div 16 ELSE data[i \div 2] % 16 ]

\* bytes.fromhex(): pairs of digits back to bytes
FromHex(h) ==
    [ i \in 1..(Len(h) \div 2) |-> 16 * h[2 * i - 1] + h[2 * i] ]

\* int(t * 1000): the clock counts whole ticks, so the product is exact
TimeMs(t) == t * 1000

(***************************************************************************)
(* State                                                                   *)
(***************************************************************************)
VARIABLES
    now,          \* wall clock (time.time()), in ticks
    \* ---- car mode (TelemetryNode.run_car)
    queue,        \* asyncio.Queue between can_reader and udp_sender
    batch,        \* udp_sender's pending list
    last_send,    \* udp_sender's last_send
    wait_start,   \* when the current wait_for(queue.get(), BATCH_TIMEOUT) began
    seq_num,      \* self.seq_num
    buffer,       \* self.buffer: deque of (seq, batch, time)
    net,          \* datagrams handed to the UDP socket and not lost at once
    tcp,          \* the resend connection: request and response in flight
    \* ---- car mode, history variables
    nframes,      \* frames created so far (identity of CANMessage objects)
    taken,        \* frames udp_sender has taken from the queue, in order
    emitted,      \* batches emitted so far: (seq, batch, sent, time)
    served_age,   \* largest age of a ring entry in the last resend response
    \* ---- base mode (TelemetryNode.run_base)
    expected_seq, \* expected_seq (NoSeq for None)
    missing_seqs, \* missing_seqs
    stats,        \* stats: received, missing, recovered
    reporter,     \* missing_reporter: "sleep" or "read" (awaiting the response)
    published,    \* what was published on can_messages, in order
    \* ---- base mode, history variables
    first_seq,    \* sequence of the first datagram processed (NoSeq before)
    seen,         \* sequences of the datagrams processed
    delivered,    \* sequences whose frames were published (UDP or recovery)
    evicted,      \* sequences dropped from missing_seqs by the size cap
    ndeliv,       \* datagrams processed so far
    stats_log,    \* what was published on system_stats, in order
    counted,      \* every increment ever made to a stats counter, summed
    last_dgram,   \* the datagram udp_receiver processed last
    failed_req,   \* the request of the last recovery cycle if it failed
    query,        \* update_table: the snapshot and the callback's arguments
    table,        \* update_table: what the callback returned
    stream,       \* sse_stream: where each connection's generator stands
    unsub,        \* the last call of _sse_unsubscribe and their number
    backend,      \* what startup found: IS_REDIS_ACTIVE, redis_client
    pipe_fd,      \* base.py: the FIFO's descriptor, None or open
    redis_out,    \* the batches published on the Redis channel
    pipe_out,     \* the batches written to the FIFO
    flushed,      \* the batches handed to a backend, in order
    connected_clients, \* websocket_bridge: the connected WebSocket clients
    pubsub,       \* the messages Redis has delivered to the subscription
    listener,     \* redis_listener: its position, message and open sends
    ws_recv,      \* what each WebSocket client has received, in order
    ws_log,       \* each message the listener took, with its clients
    ws_pub,       \* the number of messages published so far
    p_telemetry,  \* main.py: the telemetry process, running or terminated
    ingest,       \* can_reader: not started, or the branch it loops in
    \* ---- viewer backend (pecan/Backend/app.py, pecan/app.py)
    CAN_MESSAGES, \* the history list
    lock,         \* threading.Lock guarding CAN_MESSAGES: "free" or its holder
    pc,           \* where each thread stands in its handler
    decoded,      \* each writer thread's decoded record
    messages,     \* update_table's copy of the history, per reader
    nmsgs,        \* frames that reached the decoder so far
    db,           \* the DBC database load_dbc_file() returned
    appended,     \* identities of the records ever appended, in order
    \* ---- viewer backend, the SSE broker
    SSE_CLIENTS,  \* the registered subscriber queues (by connection)
    sse_q,        \* each connection's queue
    clients,      \* sse_broadcast's `clients` list still to serve, per thread
    \* ---- SSE broker, history variables
    sent,         \* per connection, the payloads ever enqueued, in order
    refused,      \* per connection, the payloads put_nowait() refused, each
                  \* with the length of the queue that refused it
    offered,      \* <<n, c>>: the broadcast of record n had c in its snapshot
    done          \* records whose broadcast has returned

carVars == << queue, batch, last_send, wait_start, seq_num,
              buffer, net, nframes, taken, emitted, served_age >>

baseVars == << expected_seq, missing_seqs, stats, reporter, published,
               first_seq, seen, delivered, evicted, ndeliv, stats_log,
               counted, last_dgram, failed_req >>

streamVars == << stream, unsub >>

sseVars == << SSE_CLIENTS, sse_q, clients, sent, refused, offered, done,
             streamVars >>

queryVars == << query, table >>

backendVars == << backend, pipe_fd, redis_out, pipe_out, flushed >>

\* the components beside the telemetry link and the viewer's history
wsVars == << connected_clients, pubsub, listener, ws_recv, ws_log, ws_pub >>

procVars == << p_telemetry, ingest >>

sideVars == << queryVars, backendVars, wsVars, procVars >>

histVars == << CAN_MESSAGES, lock, pc, decoded, messages, nmsgs, db,
              appended, sseVars >>

(***************************************************************************)
(* Car mode: can_reader                                                    *)
(***************************************************************************)
\* CANMessage(timestamp, can_id, data); n stands for the object's identity
CANMessage(t, id, data, n) ==
    [ timestamp |-> t, can_id |-> id, data |-> data, n |-> n ]

\* can_reader (data.py:83-117): either branch builds a CANMessage stamped
\* with the current time and puts it on the queue; when frames arrive is
\* up to the bus
CanReader ==
    /\ nframes < MaxFrames
    /\ \E f \in CanFrames :
         queue' = Append(queue, CANMessage(now, f[1], f[2], nframes + 1))
    /\ nframes' = nframes + 1
    /\ UNCHANGED << batch, last_send, wait_start, seq_num, buffer,
                    net, tcp, taken, emitted, served_age, now, baseVars,
                    histVars, sideVars >>

\* k turns of can_reader's loop with no step of udp_sender in between:
\* k frames stamped with the same instant are on the queue of a Sender
\* that has taken none yet
Burst(k) ==
    /\ nframes = 0
    /\ queue = << >>
    /\ batch = << >>
    /\ \E f \in CanFrames :
         queue' = [ i \in 1..k |-> CANMessage(now, f[1], f[2], i) ]
    /\ nframes' = k
    /\ UNCHANGED << batch, last_send, wait_start, seq_num, buffer,
                    net, tcp, taken, emitted, served_age, now, baseVars,
                    histVars, sideVars >>

(***************************************************************************)
(* Car mode: udp_sender                                                    *)
(***************************************************************************)
\* an emission test that looks at the size of the pending list only
EmitDueOnFull(b, t, last) ==
    /\ b # << >>
    /\ Len(b) >= BATCH_SIZE

\* the emission test of data.py:138
EmitDue(b, t, last) ==
    /\ b # << >>
    /\ (Len(b) >= BATCH_SIZE \/ t - last >= BATCH_TIMEOUT)

\* self.seq_num += 1 (data.py:139)
NextSeq(s) == s + 1

\* the datagram of data.py:141-143: header "!QH" and the packed messages;
\* len is the byte length 10 + 20 * count
Datagram(seq, b) ==
    [ len    |-> 10 + 20 * Len(b),
      seq    |-> seq,
      count  |-> Len(b),
      frames |-> [ i \in 1..Len(b) |-> Pack(b[i]) ] ]

\* while self.buffer and time.time() - self.buffer[0][2] > BUFFER_DURATION:
\*     self.buffer.popleft()                              (data.py:153-154)
RECURSIVE Sweep(_, _)
Sweep(buf, t) ==
    IF buf # << >> /\ t - buf[1].time > BUFFER_DURATION
    THEN Sweep(Tail(buf), t)
    ELSE buf

\* a batch is stored as the list object itself; a new list is bound to
\* `batch` afterwards (data.py:152, 156), so the entry keeps its frames
RetainAliased(buf, seq, b, t) ==
    Sweep(Append(buf, [ seq |-> seq, batch |-> << >>, time |-> t ]), t)

\* self.buffer.append((self.seq_num, batch, time.time())) and the sweep
Retain(buf, seq, b, t) ==
    Sweep(Append(buf, [ seq |-> seq, batch |-> b, time |-> t ]), t)

\* batch = [] after an emission that forgot to: the pending list kept
PendingKept(b) == b

\* batch = []                                                (data.py:156)
PendingAfterEmit(b) == << >>

\* an emission whose sequence number advances only when sendto() succeeds
EmitSeqOnSuccess(b, ok) ==
    /\ seq_num' = IF ok THEN NextSeq(seq_num) ELSE seq_num
    /\ net' = IF ok THEN net \cup { Datagram(seq_num', b) } ELSE net
    /\ buffer' = Retain(buffer, seq_num', b, now)
    /\ emitted' = Append(emitted, [ seq |-> seq_num', batch |-> b,
                                    sent |-> ok, time |-> now ])
    /\ batch' = PendingAfterEmit(b)
    /\ last_send' = now

\* a sender that stores a batch in the ring only when its send succeeded
AfterSendtoSkip(buf, seq, b, t, ok) ==
    IF ok THEN Retain(buf, seq, b, t) ELSE buf

\* the statements after the try/except around sendto(): the except clause
\* only logs, so both outcomes fall through to the append (data.py:145-154)
AfterSendto(buf, seq, b, t, ok) == Retain(buf, seq, b, t)

\* the emission of data.py:139-157; ok tells whether sendto() returned or
\* raised OSError
Emit(b, ok) ==
    /\ seq_num' = NextSeq(seq_num)
    /\ net' = IF ok THEN net \cup { Datagram(seq_num', b) } ELSE net
    /\ buffer' = AfterSendto(buffer, seq_num', b, now, ok)
    /\ emitted' = Append(emitted, [ seq |-> seq_num', batch |-> b,
                                    sent |-> ok, time |-> now ])
    /\ batch' = PendingAfterEmit(b)
    /\ last_send' = now

\* a loop iteration whose size test is len(batch) > BATCH_SIZE
SenderIterationStrict(b) ==
    /\ wait_start' = now
    /\ IF b # << >> /\ (Len(b) > BATCH_SIZE
                          \/ now - last_send >= BATCH_TIMEOUT)
       THEN \E ok \in BOOLEAN : Emit(b, ok)
       ELSE /\ batch' = b
            /\ UNCHANGED << seq_num, net, buffer, emitted, last_send >>

\* the tail of one loop iteration (data.py:138-157) with pending list b
SenderIteration(b) ==
    /\ wait_start' = now
    /\ IF EmitDue(b, now, last_send)
       THEN \E ok \in BOOLEAN : Emit(b, ok)
       ELSE /\ batch' = b
            /\ UNCHANGED << seq_num, net, buffer, emitted, last_send >>

\* wait_for(queue.get()) returns a message (data.py:133-134)
SenderGet ==
    /\ queue # << >>
    /\ queue' = Tail(queue)
    /\ taken' = Append(taken, Head(queue))
    /\ SenderIteration(Append(batch, Head(queue)))
    /\ UNCHANGED << tcp, nframes, served_age, now, baseVars, histVars, sideVars >>

\* wait_for(queue.get()) times out (data.py:135-136)
SenderTimeout ==
    /\ queue = << >>
    /\ now - wait_start >= BATCH_TIMEOUT
    /\ SenderIteration(batch)
    /\ UNCHANGED << queue, tcp, nframes, taken, served_age, now,
                    baseVars, histVars, sideVars >>

(***************************************************************************)
(* Car mode: handle_resend                                                 *)
(***************************************************************************)
\* buffer_lookup = {item[0]: item[1] for item in self.buffer}: the batch
\* of the last entry with that sequence (data.py:169)
InBuffer(buf, seq) == \E i \in 1..Len(buf) : buf[i].seq = seq

BufferLookup(buf, seq) ==
    buf[SetMax({ i \in 1..Len(buf) : buf[i].seq = seq })].batch

\* {"t": m.timestamp, "id": m.can_id, "d": m.data.hex()}    (data.py:174)
ResendMsg(m) ==
    [ t |-> m.timestamp, id |-> m.can_id, d |-> Hex(m.data) ]

\* a response built by walking the ring: the entries come in ring order
ResendResponseRingOrder(buf, missing) ==
    LET RECURSIVE Walk(_)
        Walk(b) ==
            IF b = << >> THEN << >>
            ELSE IF Head(b).seq \in Range(missing)
                 THEN << [ seq  |-> Head(b).seq,
                           msgs |-> [ i \in 1..Len(Head(b).batch) |->
                                        ResendMsg(Head(b).batch[i]) ] ] >>
                      \o Walk(Tail(b))
                 ELSE Walk(Tail(b))
    IN  Walk(buf)

\* the response list of data.py:168-175, in request order
RECURSIVE ResendResponse(_, _)
ResendResponse(buf, missing) ==
    IF missing = << >> THEN << >>
    ELSE LET seq  == Head(missing)
             rest == ResendResponse(buf, Tail(missing))
         IN  IF InBuffer(buf, seq)
             THEN << [ seq  |-> seq,
                       msgs |-> [ i \in 1..Len(BufferLookup(buf, seq)) |->
                                    ResendMsg(BufferLookup(buf, seq)[i]) ] ] >>
                  \o rest
             ELSE rest

\* age of the oldest ring entry a response to `missing` is built from
ServedAge(buf, missing, t) ==
    LET ages == { t - buf[i].time :
                    i \in { j \in 1..Len(buf) : buf[j].seq \in Range(missing) } }
    IN  IF ages = {} THEN NoSeq ELSE SetMax(ages)

\* handle_resend (data.py:160-183): one request read, one response written
HandleResend ==
    /\ tcp.st = "req"
    /\ tcp' = [ st |-> "resp", req |-> tcp.req,
                resp |-> ResendResponse(buffer, tcp.req) ]
    /\ served_age' = ServedAge(buffer, tcp.req, now)
    /\ UNCHANGED << queue, batch, last_send, wait_start, seq_num,
                    buffer, net, nframes, taken, emitted, now, baseVars,
                    histVars, sideVars >>

(***************************************************************************)
(* Base mode: udp_receiver                                                 *)
(***************************************************************************)
\* the cap applied by dropping the newest sequence instead of the oldest
AddMissingDropNewest(missing, s) ==
    LET added == missing \cup { s }
    IN  IF Cardinality(added) > MISSING_MAX
        THEN added \ { SetMax(added) }
        ELSE added

\* missing_seqs.add(s); if len(missing_seqs) > 1000: remove(min(missing_seqs))
AddMissing(missing, s) ==
    LET added == missing \cup { s }
    IN  IF Cardinality(added) > MISSING_MAX
        THEN added \ { SetMin(added) }
        ELSE added

\* the gap loop started one sequence late: range(expected_seq + 1, seq)
RECURSIVE AddGapFromNext(_, _, _)
AddGapFromNext(missing, s, seq) ==
    IF s + 1 >= seq THEN missing
    ELSE AddGapFromNext(AddMissing(missing, s + 1), s + 1, seq)

\* for s in range(expected_seq, seq): ...                 (data.py:224-228)
RECURSIVE AddGap(_, _, _)
AddGap(missing, s, seq) ==
    IF s >= seq THEN missing ELSE AddGap(AddMissing(missing, s), s + 1, seq)

\* the sequences the size cap removes during the gap loop
RECURSIVE GapEvicted(_, _, _)
GapEvicted(missing, s, seq) ==
    IF s >= seq THEN {}
    ELSE ((missing \cup { s }) \ AddMissing(missing, s))
           \cup GapEvicted(AddMissing(missing, s), s + 1, seq)

\* the messages of a datagram collected last frame first
ParseMsgsReversed(d) ==
    LET n == Min(d.count, Len(d.frames))
    IN  [ i \in 1..n |->
            [ time  |-> TimeMs(Unpack(d.frames[n + 1 - i]).timestamp),
              canId |-> Unpack(d.frames[n + 1 - i]).can_id,
              data  |-> Unpack(d.frames[n + 1 - i]).data ] ]

\* the messages of data.py:236-246: at most `count` records, and only those
\* that lie wholly inside the datagram
ParseMsgs(d) ==
    LET n == Min(d.count, Len(d.frames))
    IN  [ i \in 1..n |->
            [ time  |-> TimeMs(Unpack(d.frames[i]).timestamp),
              canId |-> Unpack(d.frames[i]).can_id,
              data  |-> Unpack(d.frames[i]).data ] ]

\* if msgs_to_publish: self.publish(...)                       (data.py:248)
PublishesUdp(d) == ParseMsgs(d) # << >>

\* a receiver that takes sequence 1 as the start of every session
InitialSequenceOne(expected, seq) ==
    IF expected = NoSeq THEN 1 ELSE expected

\* if expected_seq is None: expected_seq = seq            (data.py:216-218)
InitialSequence(expected, seq) ==
    IF expected = NoSeq THEN seq ELSE expected

\* a receiver that records a gap only when two or more sequences are
\* skipped: `if seq > expected_seq + 1`
ReceiveWideGap(d) ==
    IF d.len < 10
    THEN UNCHANGED << expected_seq, missing_seqs, stats, published,
                      first_seq, seen, delivered, evicted, counted >>
    ELSE LET seq      == d.seq
             expected == InitialSequence(expected_seq, seq)
             gap      == IF seq > expected THEN seq - expected ELSE 0
             grown    == IF seq > expected + 1
                         THEN AddGap(missing_seqs, expected, seq)
                         ELSE missing_seqs
             pub      == PublishesUdp(d)
         IN  /\ stats' = [ stats EXCEPT !.received = @ + 1, !.missing = @ + gap ]
             /\ counted' = [ counted EXCEPT !.received = @ + 1,
                                            !.missing = @ + gap ]
             /\ missing_seqs' = grown \ { seq }
             /\ expected_seq' = Max(expected, seq + 1)
             /\ published' = IF pub
                             THEN Append(published, [ via |-> "udp", seq |-> seq,
                                                      msgs |-> ParseMsgs(d) ])
                             ELSE published
             /\ first_seq' = IF first_seq = NoSeq THEN seq ELSE first_seq
             /\ seen' = seen \cup { seq }
             /\ delivered' = IF pub THEN delivered \cup { seq } ELSE delivered
             /\ evicted' = evicted \cup GapEvicted(missing_seqs, expected, seq)

\* one pass of udp_receiver's loop on datagram d (data.py:211-249)
Receive(d) ==
    IF d.len < 10
    THEN UNCHANGED << expected_seq, missing_seqs, stats, published,
                      first_seq, seen, delivered, evicted, counted >>
    ELSE LET seq      == d.seq
             expected == InitialSequence(expected_seq, seq)
             gap      == IF seq > expected THEN seq - expected ELSE 0
             grown    == AddGap(missing_seqs, expected, seq)
             pub      == PublishesUdp(d)
         IN  /\ stats' = [ stats EXCEPT !.received = @ + 1, !.missing = @ + gap ]
             /\ counted' = [ counted EXCEPT !.received = @ + 1,
                                            !.missing = @ + gap ]
             /\ missing_seqs' = grown \ { seq }
             /\ expected_seq' = Max(expected, seq + 1)
             /\ published' = IF pub
                             THEN Append(published, [ via |-> "udp", seq |-> seq,
                                                      msgs |-> ParseMsgs(d) ])
                             ELSE published
             /\ first_seq' = IF first_seq = NoSeq THEN seq ELSE first_seq
             /\ seen' = seen \cup { seq }
             /\ delivered' = IF pub THEN delivered \cup { seq } ELSE delivered
             /\ evicted' = evicted \cup GapEvicted(missing_seqs, expected, seq)

UdpReceive(d) ==
    /\ ndeliv < MaxDeliveries
    /\ ndeliv' = ndeliv + 1
    /\ last_dgram' = d
    /\ Receive(d)
    /\ UNCHANGED << reporter, tcp, stats_log, failed_req, now, carVars,
                    histVars, sideVars >>

(***************************************************************************)
(* Base mode: missing_reporter                                             *)
(***************************************************************************)
\* {"missing": sorted(list(missing_seqs))[-100:]}               (data.py:261)
ResendRequest(missing) == Tail_k(Sorted(missing), RESEND_MAX)

\* the messages published for one response entry (data.py:273)
RecoveredMsgs(item) ==
    [ i \in 1..Len(item.msgs) |->
        [ time  |-> TimeMs(item.msgs[i].t),
          canId |-> item.msgs[i].id,
          data  |-> FromHex(item.msgs[i].d) ] ]

\* an injection that drops the sequence from the set without publishing
\* its frames
RECURSIVE InjectUnpublished(_, _, _)
InjectUnpublished(resends, missing, pub) ==
    IF resends = << >> THEN [ missing |-> missing, published |-> pub ]
    ELSE LET item == Head(resends)
         IN  IF item.seq \in missing
             THEN InjectUnpublished(Tail(resends), missing \ { item.seq }, pub)
             ELSE InjectUnpublished(Tail(resends), missing, pub)

\* for item in resends: ... (data.py:270-275), on the rest of the response
RECURSIVE Inject(_, _, _)
Inject(resends, missing, pub) ==
    IF resends = << >> THEN [ missing |-> missing, published |-> pub ]
    ELSE LET item == Head(resends)
         IN  IF item.seq \in missing
             THEN Inject(Tail(resends), missing \ { item.seq },
                         Append(pub, [ via |-> "tcp", seq |-> item.seq,
                                       msgs |-> RecoveredMsgs(item) ]))
             ELSE Inject(Tail(resends), missing, pub)

\* the sleep ends with missing_seqs non-empty and the connection opens:
\* the request is written (data.py:254-263)
ReporterRequest ==
    /\ reporter = "sleep"
    /\ missing_seqs # {}
    /\ tcp.st = "closed"
    /\ tcp' = [ st |-> "req", req |-> ResendRequest(missing_seqs), resp |-> << >> ]
    /\ reporter' = "read"
    /\ UNCHANGED << expected_seq, missing_seqs, stats, published, first_seq,
                    stats_log, counted, last_dgram, failed_req,
                    seen, delivered, evicted, ndeliv, now, carVars,
                    histVars, sideVars >>

\* the two halves of ReporterRequest, between which the event loop runs
\* other tasks: the sleep ends with missing_seqs non-empty and
\* open_connection() is awaited (data.py:253-259)
ReporterWake ==
    /\ reporter = "sleep"
    /\ missing_seqs # {}
    /\ tcp.st = "closed"
    /\ reporter' = "connect"
    /\ UNCHANGED << expected_seq, missing_seqs, stats, published, first_seq,
                    stats_log, counted, last_dgram, failed_req,
                    seen, delivered, evicted, ndeliv, now, tcp, carVars,
                    histVars, sideVars >>

\* a reporter that takes the sequences it requests out of missing_seqs
ReporterWriteForgets ==
    /\ reporter = "connect"
    /\ tcp' = [ st |-> "req", req |-> ResendRequest(missing_seqs), resp |-> << >> ]
    /\ reporter' = "read"
    /\ missing_seqs' = missing_seqs \ Range(ResendRequest(missing_seqs))
    /\ UNCHANGED << expected_seq, stats, published, first_seq,
                    stats_log, counted, last_dgram, failed_req,
                    seen, delivered, evicted, ndeliv, now, carVars,
                    histVars, sideVars >>

\* the connection is open: the request is built from missing_seqs as it
\* is now and written (data.py:260-262)
ReporterWrite ==
    /\ reporter = "connect"
    /\ tcp' = [ st |-> "req", req |-> ResendRequest(missing_seqs), resp |-> << >> ]
    /\ reporter' = "read"
    /\ UNCHANGED << expected_seq, missing_seqs, stats, published, first_seq,
                    stats_log, counted, last_dgram, failed_req,
                    seen, delivered, evicted, ndeliv, now, carVars,
                    histVars, sideVars >>

\* a reporter that publishes every entry of the response, in missing_seqs
\* or not
ReporterResponseUnchecked ==
    /\ reporter = "read"
    /\ tcp.st = "resp"
    /\ missing_seqs' = missing_seqs \ { tcp.resp[i].seq : i \in 1..Len(tcp.resp) }
    /\ published' = published \o
                      [ i \in 1..Len(tcp.resp) |->
                          [ via |-> "tcp", seq |-> tcp.resp[i].seq,
                            msgs |-> RecoveredMsgs(tcp.resp[i]) ] ]
    /\ delivered' = delivered \cup { tcp.resp[i].seq : i \in 1..Len(tcp.resp) }
    /\ stats' = [ stats EXCEPT !.recovered = @ + Len(tcp.resp) ]
    /\ counted' = [ counted EXCEPT !.recovered = @ + Len(tcp.resp) ]
    /\ tcp' = [ st |-> "closed", req |-> << >>, resp |-> << >> ]
    /\ reporter' = "sleep"
    /\ failed_req' = << >>
    /\ UNCHANGED << expected_seq, first_seq, seen, evicted, ndeliv, now,
                    stats_log, last_dgram,
                    carVars, histVars, sideVars >>

\* the response is read whole and injected (data.py:265-278)
ReporterResponse ==
    /\ reporter = "read"
    /\ tcp.st = "resp"
    /\ LET r == Inject(tcp.resp, missing_seqs, published)
       IN  /\ missing_seqs' = r.missing
           /\ published' = r.published
           /\ delivered' = delivered \cup (missing_seqs \ r.missing)
    /\ stats' = [ stats EXCEPT !.recovered = @ + Len(tcp.resp) ]
    /\ counted' = [ counted EXCEPT !.recovered = @ + Len(tcp.resp) ]
    /\ tcp' = [ st |-> "closed", req |-> << >>, resp |-> << >> ]
    /\ reporter' = "sleep"
    /\ failed_req' = << >>
    /\ UNCHANGED << expected_seq, first_seq, seen, evicted, ndeliv, now,
                    stats_log, last_dgram,
                    carVars, histVars, sideVars >>

\* the round trip fails: the connection is refused, it is closed without
\* data, or the data does not parse (data.py:266, 279-280)
\* a failure handler that gives the requested sequences up
ReporterFailForgets ==
    /\ reporter = "read"
    /\ tcp.st \in { "req", "resp" }
    /\ tcp' = [ st |-> "closed", req |-> << >>, resp |-> << >> ]
    /\ reporter' = "sleep"
    /\ failed_req' = tcp.req
    /\ missing_seqs' = missing_seqs \ Range(tcp.req)
    /\ UNCHANGED << expected_seq, stats, published, first_seq,
                    stats_log, counted, last_dgram,
                    seen, delivered, evicted, ndeliv, now, carVars,
                    histVars, sideVars >>

ReporterFail ==
    /\ reporter = "read"
    /\ tcp.st \in { "req", "resp" }
    /\ tcp' = [ st |-> "closed", req |-> << >>, resp |-> << >> ]
    /\ reporter' = "sleep"
    /\ failed_req' = tcp.req
    /\ UNCHANGED << expected_seq, missing_seqs, stats, published, first_seq,
                    stats_log, counted, last_dgram,
                    seen, delivered, evicted, ndeliv, now, carVars,
                    histVars, sideVars >>

(***************************************************************************)
(* Base mode: stats_publisher                                              *)
(***************************************************************************)
\* the counters as reset by stats_publisher (data.py:289-291)
ZeroStats == [ received |-> 0, missing |-> 0, recovered |-> 0 ]

\* a publisher that resets the counters before it serialises them
StatsPublisherResetFirst ==
    /\ Len(stats_log) < MaxStatsTicks
    /\ stats' = ZeroStats
    /\ stats_log' = Append(stats_log, stats')
    /\ UNCHANGED << expected_seq, missing_seqs, reporter, published, first_seq,
                    seen, delivered, evicted, ndeliv, counted, last_dgram,
                    failed_req, tcp, now,
                    carVars, histVars, sideVars >>

\* system_stats is published and the counters are reset, with no await in
\* between (data.py:283-291)
StatsPublisher ==
    /\ Len(stats_log) < MaxStatsTicks
    /\ stats_log' = Append(stats_log, stats)
    /\ stats' = ZeroStats
    /\ UNCHANGED << expected_seq, missing_seqs, reporter, published, first_seq,
                    seen, delivered, evicted, ndeliv, counted, last_dgram,
                    failed_req, tcp, now,
                    carVars, histVars, sideVars >>

(***************************************************************************)
(* Viewer backend: the history list and its lock                           *)
(* (pecan/Backend/app.py; pecan/app.py has the same writers and reader)    *)
(***************************************************************************)
telemetryVars == << now, tcp, carVars, baseVars >>

\* the threads that append to the history: the named-pipe listener
\* (app.py:516) and the request threads running /api/import concurrently
Writers == { "pipe", "import1", "import2" }

\* the request threads running update_table
Readers == { "table" }

Threads == Writers \cup Readers

\* load_dbc_file() returns a database or None (app.py:82-103)
LoadDbc == { "dbc", "none" }

\* the frame ids the database knows, with their message names
DbcIds == { 192 }

DbcName(can_id) == IF can_id = 192 THEN "VCU" ELSE "?"

\* no record: the thread's local `decoded` is unbound
NoRecord == [ n |-> 0 ]

\* decode_can_message (app.py:115-143); error "" stands for no error key
DecodeCanMessage(d, can_id, data) ==
    IF d = "none"
    THEN [ can_id |-> can_id, message_name |-> "Raw", signals |-> "none",
           raw_data |-> data, error |-> "No DBC file loaded" ]
    ELSE IF can_id \in DbcIds
         THEN [ can_id |-> can_id, message_name |-> DbcName(can_id),
                signals |-> "decoded", raw_data |-> data, error |-> "" ]
         ELSE [ can_id |-> can_id, message_name |-> "Unknown",
                signals |-> "none", raw_data |-> data,
                error |-> "KeyError" ]

\* datetime.fromtimestamp(ms / 1000, tz=timezone.utc) raises ValueError
\* outside the years 1..9999 (app.py:165-167, 404-406)
FromTimestampRaises(ms) == ms > DATETIME_MAX_MS

\* the lines the pipe delivers: {"id": .., "data": [..], "time": ms}
PipeLines ==
    { [ id |-> 192, data |-> << 1, 2, 3, 4, 5, 6, 7, 255 >>, time |-> 1 ],
      [ id |-> 768, data |-> << 16, 32, 171 >>, time |-> 2 ],
      [ id |-> 192, data |-> << 1, 2, 3, 4, 5, 6, 7, 255 >>,
        time |-> DATETIME_MAX_MS + 1 ] }

\* the bodies posted to /api/import: id is a string, time is optional
\* (NoSeq when absent)
ImportRequests ==
    { [ id |-> "0xC0", data |-> << 1, 2, 3, 4, 5, 6, 7, 255 >>, time |-> 1 ],
      [ id |-> "768", data |-> << >>, time |-> NoSeq ] }

\* int(can_id_str, 0): decimal or 0x-prefixed hex (app.py:414)
IntBase0(str) ==
    CASE str = "0xC0" -> 192
      [] str = "192"  -> 192
      [] str = "768"  -> 768
      [] OTHER        -> NoSeq

\* the record named_pipe_listener builds from a line (app.py:160-177), or
\* NoRecord when a statement raises and the line is given up (app.py:199)
PipeRecord(line, d, t, n) ==
    IF FromTimestampRaises(line.time) THEN NoRecord
    ELSE DecodeCanMessage(d, line.id, line.data)
           @@ [ timestamp |-> line.time, tzinfo |-> TRUE,
                received_timestamp |-> t, n |-> n ]

\* the record import_can_message builds from a request (app.py:398-418),
\* or NoRecord when the request ends in a 4xx or 5xx answer
ImportRecord(req, d, t, n) ==
    IF req.time # NoSeq /\ FromTimestampRaises(req.time) THEN NoRecord
    ELSE IF req.id = "" \/ req.data = << >> THEN NoRecord
    ELSE IF IntBase0(req.id) = NoSeq THEN NoRecord
    ELSE DecodeCanMessage(d, IntBase0(req.id), req.data)
           @@ [ timestamp |-> IF req.time = NoSeq THEN t ELSE req.time,
                tzinfo |-> req.time # NoSeq,
                received_timestamp |-> t, n |-> n ]

\* the records a frame that reached thread t's decoder may turn into
Records(t, n) ==
    IF t = "pipe"
    THEN { PipeRecord(line, db, now, n) : line \in PipeLines }
    ELSE { ImportRecord(req, db, now, n) : req \in ImportRequests }

\* `with lock:` entered without waiting for the holder to leave
LockIgnored == TRUE

\* `with lock:` blocks until the lock is free (app.py:179, 215, 420)
LockFree == lock = "free"

\* the length test followed by pop(): the newest record is removed
TrimmedNewest(h) ==
    IF Len(h) > MESSAGE_HISTORY_LIMIT THEN SubSeq(h, 1, Len(h) - 1) ELSE h

\* if len(CAN_MESSAGES) > MESSAGE_HISTORY_LIMIT: CAN_MESSAGES.pop(0)
\*                                                    (app.py:181-182, 422-423)
Trimmed(h) == IF Len(h) > MESSAGE_HISTORY_LIMIT THEN Tail(h) ELSE h

\* a line of the pipe or an import request reaches the decoder and is
\* turned into a record (app.py:155-177, 398-418); n stands for the
\* frame's identity. When a statement raises, the handler is left with
\* nothing appended.
Decode(t) ==
    /\ t \in Writers
    /\ pc[t] = "idle"
    /\ nmsgs < MaxMessages
    /\ \E r \in Records(t, nmsgs + 1) :
         /\ decoded' = [ decoded EXCEPT ![t] = r ]
         /\ pc' = [ pc EXCEPT ![t] = IF r = NoRecord THEN "idle"
                                                     ELSE "acquire" ]
    /\ nmsgs' = nmsgs + 1
    /\ UNCHANGED << CAN_MESSAGES, lock, messages, db, appended,
                    telemetryVars, sideVars,
                    sseVars >>

\* update_table is called (app.py:214)
Query(t) ==
    /\ t \in Readers
    /\ pc[t] = "idle"
    /\ pc' = [ pc EXCEPT ![t] = "acquire" ]
    /\ UNCHANGED << CAN_MESSAGES, lock, decoded, messages, nmsgs, db,
                    appended, telemetryVars, sideVars,
                    sseVars >>

\* `with lock:` is entered
Acquire(t) ==
    /\ pc[t] = "acquire"
    /\ LockFree
    /\ lock' = t
    /\ pc' = [ pc EXCEPT ![t] = IF t \in Writers THEN "append" ELSE "copy" ]
    /\ UNCHANGED << CAN_MESSAGES, decoded, messages, nmsgs, db, appended,
                    telemetryVars, sideVars,
                    sseVars >>

\* CAN_MESSAGES.append(decoded)                          (app.py:180, 421)
AppendRecord(t) ==
    /\ pc[t] = "append"
    /\ CAN_MESSAGES' = Append(CAN_MESSAGES, decoded[t])
    /\ appended' = Append(appended, decoded[t].n)
    /\ pc' = [ pc EXCEPT ![t] = "trim" ]
    /\ UNCHANGED << lock, decoded, messages, nmsgs, db, telemetryVars, sideVars,
                    sseVars >>

\* the length test and pop(0)                    (app.py:181-182, 422-423)
Trim(t) ==
    /\ pc[t] = "trim"
    /\ CAN_MESSAGES' = Trimmed(CAN_MESSAGES)
    /\ pc' = [ pc EXCEPT ![t] = "release" ]
    /\ UNCHANGED << lock, decoded, messages, nmsgs, db, appended,
                    telemetryVars, sideVars,
                    sseVars >>

\* messages = CAN_MESSAGES[:]                                 (app.py:216)
Copy(t) ==
    /\ pc[t] = "copy"
    /\ messages' = [ messages EXCEPT ![t] = CAN_MESSAGES ]
    /\ pc' = [ pc EXCEPT ![t] = "release" ]
    /\ UNCHANGED << CAN_MESSAGES, lock, decoded, nmsgs, db, appended,
                    telemetryVars, sideVars,
                    sseVars >>

\* the `with lock:` block is left; a writer goes on to broadcast_event
Release(t) ==
    /\ pc[t] = "release"
    /\ lock' = "free"
    /\ pc' = [ pc EXCEPT ![t] = IF t \in Writers THEN "broadcast"
                                                 ELSE "idle" ]
    /\ UNCHANGED << CAN_MESSAGES, decoded, messages, nmsgs, db, appended,
                    telemetryVars, sideVars,
                    sseVars >>

(***************************************************************************)
(* Viewer backend: the SSE broker (pecan/Backend/app.py:25-75, 440-482)    *)
(***************************************************************************)
\* the streaming connections; "B" is a client that never reads
Clients == { "A", "B" }

StuckClients == { "B" }

\* list(SSE_CLIENTS): a set is iterated in no particular order
Orders(S) ==
    { f \in [ 1..Cardinality(S) -> S ] :
        \A i, j \in 1..Cardinality(S) : f[i] = f[j] => i = j }

\* the event broadcast for a record: sse_format(data=json.dumps(decoded),
\* event="can", _id=str(can_id))                       (app.py:188-195)
CanEvent(r, t) ==
    [ event |-> "can", id |-> r.can_id, n |-> r.n, src |-> t ]

\* q.put_nowait(payload) on a Queue(maxsize): Full is raised when the
\* queue holds maxsize items                            (app.py:51, 66)
QueueFull(q) == Len(q) >= SSE_QUEUE_MAX

\* sse_stream registers its queue (app.py:50-54, 450)
Subscribe(c) ==
    /\ c \notin SSE_CLIENTS
    /\ sse_q' = [ sse_q EXCEPT ![c] = << >> ]
    /\ SSE_CLIENTS' = SSE_CLIENTS \cup { c }
    /\ UNCHANGED << clients, sent, refused, offered, done,
                    CAN_MESSAGES, lock, pc, decoded, messages, nmsgs, db,
                    appended, telemetryVars, sideVars, streamVars >>

\* the generator of a reading client takes a message (app.py:463-465)
Get(c) ==
    /\ c \in SSE_CLIENTS \ StuckClients
    /\ sse_q[c] # << >>
    /\ sse_q' = [ sse_q EXCEPT ![c] = Tail(@) ]
    /\ UNCHANGED << SSE_CLIENTS, clients, sent, refused, offered, done,
                    CAN_MESSAGES, lock, pc, decoded, messages, nmsgs, db,
                    appended, telemetryVars, sideVars, streamVars >>

\* a snapshot that leaves out every client whose queue has refused a
\* payload before
BroadcastSkipsRefused(t) ==
    /\ pc[t] = "broadcast"
    /\ \E order \in Orders({ c \in SSE_CLIENTS : refused[c] = {} }) :
         /\ clients' = [ clients EXCEPT ![t] = order ]
         /\ pc' = [ pc EXCEPT ![t] = IF order = << >> THEN "idle" ELSE "put" ]
         /\ decoded' = [ decoded EXCEPT ![t] =
                          IF order = << >> THEN NoRecord ELSE @ ]
         /\ done' = IF order = << >> THEN done \cup { decoded[t].n } ELSE done
    /\ offered' = offered \cup { << decoded[t].n, c >> : c \in SSE_CLIENTS }
    /\ UNCHANGED << SSE_CLIENTS, sse_q, sent, refused,
                    CAN_MESSAGES, lock, messages, nmsgs, db, appended,
                    telemetryVars, sideVars, streamVars >>

\* sse_broadcast takes its snapshot of the registry (app.py:62-63)
Broadcast(t) ==
    /\ pc[t] = "broadcast"
    /\ \E order \in Orders(SSE_CLIENTS) :
         /\ clients' = [ clients EXCEPT ![t] = order ]
         /\ pc' = [ pc EXCEPT ![t] = IF order = << >> THEN "idle" ELSE "put" ]
         /\ decoded' = [ decoded EXCEPT ![t] =
                          IF order = << >> THEN NoRecord ELSE @ ]
         /\ done' = IF order = << >> THEN done \cup { decoded[t].n } ELSE done
    /\ offered' = offered \cup { << decoded[t].n, c >> : c \in SSE_CLIENTS }
    /\ UNCHANGED << SSE_CLIENTS, sse_q, sent, refused,
                    CAN_MESSAGES, lock, messages, nmsgs, db, appended,
                    telemetryVars, sideVars, streamVars >>

\* a loop that lets Full end it: the clients after a full one are skipped
PutAbortOnFull(t) ==
    /\ pc[t] = "put"
    /\ LET c    == Head(clients[t])
           ev   == CanEvent(decoded[t], t)
           full == QueueFull(sse_q[c])
           rest == IF full THEN << >> ELSE Tail(clients[t])
       IN  /\ sse_q' = [ sse_q EXCEPT ![c] = IF full THEN @ ELSE Append(@, ev) ]
           /\ sent' = [ sent EXCEPT ![c] = IF full THEN @ ELSE Append(@, ev) ]
           /\ refused' = [ refused EXCEPT ![c] =
                            IF full
                            THEN @ \cup { [ n |-> ev.n, len |-> Len(sse_q[c]) ] }
                            ELSE @ ]
           /\ clients' = [ clients EXCEPT ![t] = rest ]
           /\ pc' = [ pc EXCEPT ![t] = IF rest = << >> THEN "idle" ELSE "put" ]
           /\ decoded' = [ decoded EXCEPT ![t] =
                            IF rest = << >> THEN NoRecord ELSE @ ]
           /\ done' = IF rest = << >> THEN done \cup { ev.n } ELSE done
    /\ UNCHANGED << SSE_CLIENTS, offered,
                    CAN_MESSAGES, lock, messages, nmsgs, db, appended,
                    telemetryVars, sideVars, streamVars >>

\* one turn of `for q in clients: try: q.put_nowait(payload) except: pass`
\* (app.py:64-69); after the last client broadcast_event returns
Put(t) ==
    /\ pc[t] = "put"
    /\ LET c    == Head(clients[t])
           ev   == CanEvent(decoded[t], t)
           full == QueueFull(sse_q[c])
           rest == Tail(clients[t])
       IN  /\ sse_q' = [ sse_q EXCEPT ![c] = IF full THEN @ ELSE Append(@, ev) ]
           /\ sent' = [ sent EXCEPT ![c] = IF full THEN @ ELSE Append(@, ev) ]
           /\ refused' = [ refused EXCEPT ![c] =
                            IF full
                            THEN @ \cup { [ n |-> ev.n, len |-> Len(sse_q[c]) ] }
                            ELSE @ ]
           /\ clients' = [ clients EXCEPT ![t] = rest ]
           /\ pc' = [ pc EXCEPT ![t] = IF rest = << >> THEN "idle" ELSE "put" ]
           /\ decoded' = [ decoded EXCEPT ![t] =
                            IF rest = << >> THEN NoRecord ELSE @ ]
           /\ done' = IF rest = << >> THEN done \cup { ev.n } ELSE done
    /\ UNCHANGED << SSE_CLIENTS, offered,
                    CAN_MESSAGES, lock, messages, nmsgs, db, appended,
                    telemetryVars, sideVars, streamVars >>

\* SSE_CLIENTS.remove(q): KeyError when q is not registered
SseUnsubscribeRemove(S, c) ==
    IF c \in S THEN [ clients |-> S \ { c }, raised |-> "" ]
    ELSE [ clients |-> S, raised |-> "KeyError" ]

\* _sse_unsubscribe: SSE_CLIENTS.discard(q) under the lock (app.py:57-59)
SseUnsubscribe(S, c) == [ clients |-> S \ { c }, raised |-> "" ]

\* one call of _sse_unsubscribe(q) and what it did
Unsubscribe(c) ==
    LET r == SseUnsubscribe(SSE_CLIENTS, c)
    IN  /\ SSE_CLIENTS' = r.clients
        /\ unsub' = [ q |-> c, raised |-> r.raised, calls |-> unsub.calls + 1 ]

\* the most calls of _sse_unsubscribe made from outside a stream
MaxUnsubscribes == 3

\* _sse_unsubscribe called on any handle, registered or not
UnsubscribeCall(c) ==
    /\ unsub.calls < MaxUnsubscribes
    /\ Unsubscribe(c)
    /\ UNCHANGED << stream, sse_q, clients, sent, refused, offered, done,
                    CAN_MESSAGES, lock, pc, decoded, messages, nmsgs, db,
                    appended, telemetryVars, sideVars >>

\* GET /api/stream: the view registers the queue and returns the response
\* around a generator that has not run yet (app.py:442-450, 482)
SseStream(c) ==
    /\ stream[c] = "none"
    /\ c \notin SSE_CLIENTS
    /\ stream' = [ stream EXCEPT ![c] = "start" ]
    /\ sse_q' = [ sse_q EXCEPT ![c] = << >> ]
    /\ SSE_CLIENTS' = SSE_CLIENTS \cup { c }
    /\ UNCHANGED << unsub, clients, sent, refused, offered, done,
                    CAN_MESSAGES, lock, pc, decoded, messages, nmsgs, db,
                    appended, telemetryVars, sideVars >>

\* the server starts the generator, which stops at its first yield, the
\* "connected" comment, before the try statement (app.py:454)
StreamConnected(c) ==
    /\ stream[c] = "start"
    /\ stream' = [ stream EXCEPT ![c] = "hello" ]
    /\ UNCHANGED << SSE_CLIENTS, unsub, sse_q, clients, sent, refused,
                    offered, done,
                    CAN_MESSAGES, lock, pc, decoded, messages, nmsgs, db,
                    appended, telemetryVars, sideVars >>

\* the first chunk is written and the generator resumed: it enters the try
\* statement and its loop (app.py:456-458)
StreamLoop(c) ==
    /\ stream[c] = "hello"
    /\ stream' = [ stream EXCEPT ![c] = "loop" ]
    /\ UNCHANGED << SSE_CLIENTS, unsub, sse_q, clients, sent, refused,
                    offered, done,
                    CAN_MESSAGES, lock, pc, decoded, messages, nmsgs, db,
                    appended, telemetryVars, sideVars >>

\* q.get(timeout=1.0) inside the loop (app.py:463-465)
StreamGet(c) ==
    /\ stream[c] = "loop"
    /\ Get(c)

\* the client is gone: the server closes the response iterator, which
\* raises GeneratorExit at the yield the generator is stopped at; only a
\* yield inside the try statement runs the finally clause (app.py:456-473)
StreamClose(c) ==
    /\ stream[c] \in { "start", "hello", "loop" }
    /\ stream' = [ stream EXCEPT ![c] = "closed" ]
    /\ IF stream[c] = "loop" THEN Unsubscribe(c)
       ELSE UNCHANGED << SSE_CLIENTS, unsub >>
    /\ UNCHANGED << sse_q, clients, sent, refused, offered, done,
                    CAN_MESSAGES, lock, pc, decoded, messages, nmsgs, db,
                    appended, telemetryVars, sideVars >>

InitSse ==
    /\ SSE_CLIENTS = {}
    /\ sse_q = [ c \in Clients |-> << >> ]
    /\ clients = [ t \in Writers |-> << >> ]
    /\ sent = [ c \in Clients |-> << >> ]
    /\ refused = [ c \in Clients |-> {} ]
    /\ offered = {}
    /\ done = {}
    /\ stream = [ c \in Clients |-> "none" ]
    /\ unsub = [ q |-> "", raised |-> "", calls |-> 0 ]

InitHist ==
    /\ CAN_MESSAGES = << >>
    /\ lock = "free"
    /\ pc = [ t \in Threads |-> "idle" ]
    /\ decoded = [ t \in Writers |-> NoRecord ]
    /\ messages = [ t \in Readers |-> << >> ]
    /\ nmsgs = 0
    /\ db \in LoadDbc
    /\ appended = << >>
    /\ InitSse

(***************************************************************************)
(* Viewer: the table callback update_table (pecan/app.py:126-178)          *)
(***************************************************************************)
\* filtered[:100]: the literal 100 of pecan/app.py:177-178, scaled
TABLE_LIMIT == 2

\* time_range or 600: the literal 600 of pecan/app.py:133, scaled
DEFAULT_TIME_RANGE == 3

\* the longest snapshot a query is applied to
MaxHistory == 3

\* s[a:] of a Python list, a of either sign
SliceFrom(s, a) ==
    LET start == IF a < 0 THEN Max(Len(s) + a, 0) ELSE Min(a, Len(s))
    IN  SubSeq(s, start + 1, Len(s))

\* s[::-1]
Reversed(s) == [ i \in 1..Len(s) |-> s[Len(s) + 1 - i] ]

\* message_count = min(int(time_range), len(snapshot))
\* filtered = messages[-message_count:]              (pecan/app.py:143-144)
ByCount(snapshot, time_range) ==
    SliceFrom(snapshot, 0 - Min(time_range, Len(snapshot)))

\* msg_time >= cutoff_time raises TypeError when msg['timestamp'] has no
\* UTC offset: cutoff_time is datetime.now(local_tz) (pecan/app.py:154-159)
OriginalTimeRaises(snapshot) ==
    \E i \in 1..Len(snapshot) : ~snapshot[i].tzinfo

\* the window of pecan/app.py:139-160
Window(snapshot, filter_mode, time_range, at) ==
    CASE filter_mode = "all" -> snapshot
      [] filter_mode = "count" -> ByCount(snapshot, time_range)
      [] filter_mode = "received_time" ->
           SelectSeq(snapshot,
                     LAMBDA msg : msg.received_timestamp >= at - time_range)
      [] OTHER ->
           SelectSeq(snapshot,
                     LAMBDA msg : msg.timestamp >= at - time_range)

\* the ID and name filters of pecan/app.py:162-169; "" is an empty field
IdNameFilter(filtered, can_id, message_name) ==
    IF can_id # "" \/ message_name # ""
    THEN SelectSeq(filtered,
                   LAMBDA msg :
                     /\ can_id = "" \/ ToString(msg.can_id) = can_id
                     /\ message_name = "" \/ msg.message_name = message_name)
    ELSE filtered

\* filtered[:100] when longer                       (pecan/app.py:177-178)
Limited(filtered) ==
    IF Len(filtered) > TABLE_LIMIT THEN SubSeq(filtered, 1, TABLE_LIMIT)
    ELSE filtered

\* the rows update_table returns for q, or the exception that ends it
TableOf(q) ==
    LET time_range  == IF q.time_range = 0 THEN DEFAULT_TIME_RANGE
                       ELSE q.time_range
        filter_mode == IF q.filter_mode = "" THEN "received_time"
                       ELSE q.filter_mode
    IN  IF /\ filter_mode \notin { "all", "count", "received_time" }
           /\ OriginalTimeRaises(q.snapshot)
        THEN [ st |-> "TypeError", rows |-> << >> ]
        ELSE [ st   |-> "returned",
               rows |-> Limited(Reversed(
                          IdNameFilter(Window(q.snapshot, filter_mode,
                                              time_range, q.at),
                                       q.can_id, q.message_name))) ]

\* the i-th record of a snapshot: received at wall time i from the pipe
\* with a source time, or imported without a "time" field
SnapshotRecords(i) ==
    { PipeRecord([ id |-> id, data |-> << 1, 2, 3, 4, 5, 6, 7, 255 >>,
                   time |-> ts ], "dbc", i, i) :
        id \in { 192, 768 }, ts \in { i - 1, i } }
      \cup { ImportRecord([ id |-> "768", data |-> << 1 >>, time |-> NoSeq ],
                          "dbc", i, i) }

\* the snapshots taken of the history: records in insertion order
Snapshots ==
    UNION { { h \in [ 1..len -> UNION { SnapshotRecords(i) : i \in 1..len } ] :
                \A i \in 1..len : h[i] \in SnapshotRecords(i) } :
            len \in 0..MaxHistory }

\* the arguments Dash hands to the callback; an empty field is "" for the
\* text inputs and the dropdown and 0 for the number input
Queries ==
    [ snapshot     : Snapshots,
      filter_mode  : { "", "all", "count", "received_time", "original_time" },
      time_range   : (0 - 1)..MaxHistory,
      can_id       : { "", "192", "0xC0" },
      message_name : { "", "VCU" },
      at           : { MaxHistory, MaxHistory + 1 } ]

NoQuery ==
    [ snapshot |-> << >>, filter_mode |-> "", time_range |-> 0,
      can_id |-> "", message_name |-> "", at |-> 0 ]

NoTable == [ st |-> "", rows |-> << >> ]

\* one call of update_table on the snapshot (pecan/app.py:126-178)
UpdateTable ==
    /\ table = NoTable
    /\ table' = TableOf(query)
    /\ UNCHANGED << query, telemetryVars, histVars, backendVars, wsVars,
                    procVars >>

(***************************************************************************)
(* The pub/sub backend: base-station/base.py and TelemetryNode.publish     *)
(***************************************************************************)
\* the most batches handed to a backend
MaxFlushes == 3

\* the batches a node flushes, by their number
FlushBatch(n) == [ n |-> n, frames |-> << n >> ]

\* startup: redis.Redis() and setex (base.py:22-31), redis.from_url() and
\* ping (data.py:48-54); Redis is reachable or it is not
Backends ==
    { [ IS_REDIS_ACTIVE |-> up, redis_client |-> IF up THEN "redis" ELSE "none" ] :
        up \in BOOLEAN }

\* open_pipe (base.py:139-152): the descriptor is kept once open; opening
\* a FIFO write-only and non-blocking fails while nobody reads it
OpenPipe(fd, reader) == IF fd = "open" \/ reader THEN "open" ELSE "none"

\* canserver_broadcast (base.py:163-211) on one flushed batch: reader
\* tells whether a process has the FIFO open for reading, ok whether the
\* publish or the write returned
CanserverBroadcast(reader, ok) ==
    /\ Len(flushed) < MaxFlushes
    /\ LET b == FlushBatch(Len(flushed) + 1)
       IN  /\ flushed' = Append(flushed, [ node |-> "base.py", batch |-> b,
                                           reader |-> reader, ok |-> ok ])
           /\ IF backend.IS_REDIS_ACTIVE
              THEN /\ redis_out' = IF ok THEN Append(redis_out, b)
                                   ELSE redis_out
                   /\ UNCHANGED << pipe_out, pipe_fd >>
              ELSE IF OpenPipe(pipe_fd, reader) = "none"
              THEN UNCHANGED << redis_out, pipe_out, pipe_fd >>
              ELSE /\ pipe_out' = IF ok /\ reader THEN Append(pipe_out, b)
                                  ELSE pipe_out
                   /\ pipe_fd' = IF ok /\ reader THEN "open" ELSE "none"
                   /\ UNCHANGED redis_out
    /\ UNCHANGED << backend, telemetryVars, histVars, queryVars, wsVars,
                    procVars >>

\* TelemetryNode.publish (data.py:56-61): nothing is done without a client
Publish(client, out, pipe, b) ==
    IF client = "none" THEN [ redis |-> out, pipe |-> pipe ]
    ELSE [ redis |-> Append(out, b), pipe |-> pipe ]

\* udp_receiver hands the frames of a datagram to self.publish
\* (data.py:248-249); ok tells whether redis_client.publish returned
TelemetryPublish(ok) ==
    /\ Len(flushed) < MaxFlushes
    /\ LET b == FlushBatch(Len(flushed) + 1)
           r == Publish(backend.redis_client, redis_out, pipe_out, b)
       IN  /\ flushed' = Append(flushed, [ node |-> "data.py", batch |-> b,
                                           reader |-> TRUE, ok |-> ok ])
           /\ redis_out' = IF ok THEN r.redis ELSE redis_out
           /\ pipe_out' = r.pipe
    /\ UNCHANGED << backend, pipe_fd, telemetryVars, histVars, queryVars,
                    wsVars, procVars >>

InitBackend ==
    /\ pipe_fd = "none"
    /\ redis_out = << >>
    /\ pipe_out = << >>
    /\ flushed = << >>

(***************************************************************************)
(* The WebSocket bridge (websocket_bridge.py)                              *)
(***************************************************************************)
WsClients == { "w1", "w2" }

\* the most messages published on the two channels
MaxWsMessages == 3

\* the channels of pubsub.subscribe (websocket_bridge.py:24)
WsChannels == { "can_messages", "system_stats" }

\* ws_handler up to its await: the client is registered
\* (websocket_bridge.py:48-54)
WsConnect(c) ==
    /\ c \notin connected_clients
    /\ connected_clients' = connected_clients \cup { c }
    /\ UNCHANGED << pubsub, listener, ws_recv, ws_log, ws_pub,
                    telemetryVars, histVars, queryVars, backendVars, procVars >>

\* wait_closed() returns and the finally clause removes the client
\* (websocket_bridge.py:55-60)
WsClose(c) ==
    /\ c \in connected_clients
    /\ connected_clients' = connected_clients \ { c }
    /\ UNCHANGED << pubsub, listener, ws_recv, ws_log, ws_pub,
                    telemetryVars, histVars, queryVars, backendVars, procVars >>

\* a node publishes on one of the channels and Redis delivers the message
\* to the bridge's subscription
RedisPublish(ch) ==
    /\ ws_pub < MaxWsMessages
    /\ ws_pub' = ws_pub + 1
    /\ pubsub' = Append(pubsub, [ n |-> ws_pub + 1, channel |-> ch ])
    /\ UNCHANGED << connected_clients, listener, ws_recv, ws_log,
                    telemetryVars, histVars, queryVars, backendVars, procVars >>

\* one turn of `async for message in pubsub.listen()`: the send coroutines
\* are made for the clients connected now and gather() awaits them
\* (websocket_bridge.py:29-42)
ListenerTake ==
    /\ listener.st = "listen"
    /\ pubsub # << >>
    /\ pubsub' = Tail(pubsub)
    /\ listener' = [ st      |-> IF connected_clients = {} THEN "listen"
                                 ELSE "gather",
                     msg     |-> Head(pubsub),
                     pending |-> connected_clients ]
    /\ ws_log' = Append(ws_log, [ msg |-> Head(pubsub),
                                  to |-> connected_clients, failed |-> {} ])
    /\ UNCHANGED << connected_clients, ws_recv, ws_pub,
                    telemetryVars, histVars, queryVars, backendVars, procVars >>

\* gather() without return_exceptions: the first failed send is raised in
\* the listener, whose except clause ends it
AfterSendRaising(ok, rest) ==
    IF ~ok THEN "stopped" ELSE IF rest = {} THEN "listen" ELSE "gather"

\* gather(..., return_exceptions=True): a failed send is a result like
\* any other (websocket_bridge.py:39-42)
AfterSend(ok, rest) == IF rest = {} THEN "listen" ELSE "gather"

\* one client.send(data) ends: the frame is written, or the send raises
\* (the connection is closed); the sends of one gather end in any order
ListenerSend(c, ok) ==
    /\ listener.st = "gather"
    /\ c \in listener.pending
    /\ ok => c \in connected_clients
    /\ LET rest == listener.pending \ { c }
       IN  listener' = [ listener EXCEPT !.st = AfterSend(ok, rest),
                                         !.pending = rest ]
    /\ ws_recv' = [ ws_recv EXCEPT ![c] =
                      IF ok THEN Append(@, listener.msg) ELSE @ ]
    /\ ws_log' = [ ws_log EXCEPT ![Len(ws_log)].failed =
                     IF ok THEN @ ELSE @ \cup { c } ]
    /\ UNCHANGED << connected_clients, pubsub, ws_pub,
                    telemetryVars, histVars, queryVars, backendVars, procVars >>

NoMessage == [ n |-> 0, channel |-> "" ]

InitWs ==
    /\ connected_clients = {}
    /\ pubsub = << >>
    /\ listener = [ st |-> "listen", msg |-> NoMessage, pending |-> {} ]
    /\ ws_recv = [ c \in WsClients |-> << >> ]
    /\ ws_log = << >>
    /\ ws_pub = 0

(***************************************************************************)
(* The supervisor (main.py) and the end of the telemetry process           *)
(***************************************************************************)
InitProc ==
    /\ p_telemetry = "running"
    /\ ingest = "start"

\* p.terminate(); p.join() on KeyboardInterrupt (main.py:91-96): SIGTERM,
\* for which the child installs no handler, ends the process where it
\* stands.  The interrupt itself, delivered to the child as well, makes
\* asyncio.run() cancel the tasks: CancelledError is raised at
\* udp_sender's await, which no clause of the loop catches
\* (data.py:132-136).  Either way no statement of udp_sender runs again.
Terminate ==
    /\ p_telemetry = "running"
    /\ p_telemetry' = "terminated"
    /\ UNCHANGED << ingest, telemetryVars, histVars, queryVars, backendVars, wsVars >>

\* a step of the car node while its process runs
Running(A) == p_telemetry = "running" /\ A

(***************************************************************************)
(* Car mode on the event loop: the tasks of asyncio.gather (data.py:186)   *)
(***************************************************************************)
\* can_reader's first step: the bus opens and the task enters the
\* hardware loop, or SIMULATE is set or Bus() raises and it enters the
\* simulation loop (data.py:84-100)
ReaderStart(opened) ==
    /\ ingest = "start"
    /\ ingest' = IF opened THEN "hardware" ELSE "simulation"
    /\ UNCHANGED << p_telemetry, telemetryVars, histVars, queryVars,
                    backendVars, wsVars >>

\* one turn of the hardware loop with a frame: bus.recv(0.1) blocks the
\* thread and `await queue.put()` on the unbounded queue returns without
\* suspending, so the task goes round without leaving the event loop to
\* another task (data.py:94-98); a turn without a frame changes nothing
HwRecv == ingest = "hardware" /\ CanReader

\* bus.recv() raises: the except clause starts the simulation loop
\* (data.py:99-102)
HwRaise ==
    /\ ingest = "hardware"
    /\ ingest' = "simulation"
    /\ UNCHANGED << p_telemetry, telemetryVars, histVars, queryVars,
                    backendVars, wsVars >>

\* time passes while the hardware loop keeps the thread
HwTick ==
    /\ ingest = "hardware"
    /\ now < MaxTime
    /\ now' = now + 1
    /\ UNCHANGED << tcp, carVars, baseVars, histVars, sideVars >>

\* one turn of the simulation loop, which suspends in asyncio.sleep(0.01)
\* (data.py:108-117); frames are generated while a timeout still fits
\* before the last instant
SimReader ==
    ingest = "simulation" /\ now + BATCH_TIMEOUT <= MaxTime /\ CanReader

\* a step of another task: the event loop runs it only when the task
\* holding the thread is suspended, which the hardware loop never is
OnLoop(A) == ingest = "simulation" /\ A

(***************************************************************************)
(* The clock, the environment, and the specifications                      *)
(***************************************************************************)
vars == << now, tcp, carVars, baseVars, histVars, sideVars >>

\* time passes; the event loop runs udp_sender as soon as it is runnable,
\* so the clock does not pass a loop iteration that is due
Tick ==
    /\ now < MaxTime
    /\ queue = << >>
    /\ now - wait_start < BATCH_TIMEOUT
    /\ now' = now + 1
    /\ UNCHANGED << tcp, carVars, baseVars, histVars, sideVars >>

InitCar ==
    /\ queue = << >>
    /\ batch = << >>
    /\ last_send = 0
    /\ wait_start = 0
    /\ seq_num = 0
    /\ buffer = << >>
    /\ net = {}
    /\ nframes = 0
    /\ taken = << >>
    /\ emitted = << >>
    /\ served_age = NoSeq

InitBase ==
    /\ expected_seq = NoSeq
    /\ missing_seqs = {}
    /\ stats = [ received |-> 0, missing |-> 0, recovered |-> 0 ]
    /\ reporter = "sleep"
    /\ published = << >>
    /\ first_seq = NoSeq
    /\ seen = {}
    /\ delivered = {}
    /\ evicted = {}
    /\ ndeliv = 0
    /\ stats_log = << >>
    /\ counted = [ received |-> 0, missing |-> 0, recovered |-> 0 ]
    /\ last_dgram = [ len |-> 0, seq |-> 0, count |-> 0, frames |-> << >> ]
    /\ failed_req = << >>

\* every process after construction, the viewer with or without a DBC
InitViewer ==
    /\ now = 0
    /\ tcp = [ st |-> "closed", req |-> << >>, resp |-> << >> ]
    /\ InitCar
    /\ InitBase
    /\ InitHist
    /\ query = NoQuery
    /\ table = NoTable
    /\ backend \in { b \in Backends : b.IS_REDIS_ACTIVE }
    /\ InitBackend
    /\ InitWs
    /\ InitProc

\* the telemetry node's specifications leave the viewer idle; its DBC is
\* taken as found
Init ==
    /\ InitViewer
    /\ db = "dbc"

\* ---- the car node alone: resend requests come from any TCP client
ClientRequests == { << 1 >>, << 2, 1 >> }

ClientRequest ==
    /\ tcp.st = "closed"
    /\ \E req \in ClientRequests :
         tcp' = [ st |-> "req", req |-> req, resp |-> << >> ]
    /\ UNCHANGED << now, carVars, baseVars, histVars, sideVars >>

ClientClose ==
    /\ tcp.st = "resp"
    /\ tcp' = [ st |-> "closed", req |-> << >>, resp |-> << >> ]
    /\ UNCHANGED << now, carVars, baseVars, histVars, sideVars >>

NextCar ==
    \/ Tick
    \/ CanReader
    \/ SenderGet
    \/ SenderTimeout
    \/ ClientRequest
    \/ HandleResend
    \/ ClientClose

SpecCar == Init /\ [][NextCar]_vars

\* ---- the base node alone: datagrams and resend responses come from any
\* sender, in any order, lost or repeated
MaxSeq == MISSING_MAX + 4

WireBatch(s) == << CANMessage(s, 192, << 1, 2, 3, 4, 5, 6, 7, 255 >>, s) >>

\* a datagram cut short on the way: the header announces two frames and
\* the bytes of one follow
TruncatedDatagram ==
    [ len |-> 30, seq |-> 2, count |-> 2,
      frames |-> Datagram(2, WireBatch(2)).frames ]

WireDatagrams ==
    { Datagram(s, WireBatch(s)) : s \in 1..MaxSeq }
        \cup { [ len |-> 4, seq |-> 0, count |-> 0, frames |-> << >> ],
               TruncatedDatagram }

\* a resend server answers with the requested sequences it still holds
RECURSIVE SubSeqs(_)
SubSeqs(q) ==
    IF q = << >> THEN { << >> }
    ELSE LET rest == SubSeqs(Tail(q))
         IN  rest \cup { << Head(q) >> \o r : r \in rest }

WireServe ==
    /\ tcp.st = "req"
    /\ \E held \in SubSeqs(tcp.req) :
         tcp' = [ st |-> "resp", req |-> tcp.req,
                  resp |-> [ i \in 1..Len(held) |->
                               [ seq  |-> held[i],
                                 msgs |-> << ResendMsg(WireBatch(held[i])[1]) >> ] ] ]
    /\ UNCHANGED << now, carVars, baseVars, histVars, sideVars >>

NextBase ==
    \/ \E d \in WireDatagrams : UdpReceive(d)
    \/ ReporterRequest
    \/ WireServe
    \/ ReporterResponse
    \/ ReporterFail
    \/ StatsPublisher

SpecBase == Init /\ [][NextBase]_vars

\* ---- the base node with the reporter's await of open_connection() as a
\* step of its own
NextReporter ==
    \/ \E d \in WireDatagrams : UdpReceive(d)
    \/ ReporterWake
    \/ ReporterWrite
    \/ WireServe
    \/ ReporterResponse
    \/ ReporterFail

SpecReporter == Init /\ [][NextReporter]_vars

\* ---- car and base joined by the UDP link and the TCP resend connection.
\* stats_publisher only resets the counters, which no other task reads;
\* its interleavings with the receiver and the reporter are in SpecBase.
NextLink ==
    \/ Tick
    \/ nframes < LinkFrames /\ CanReader
    \/ SenderGet
    \/ SenderTimeout
    \/ \E d \in net : UdpReceive(d)
    \/ ReporterRequest
    \/ HandleResend
    \/ ReporterResponse
    \/ ReporterFail

SpecLink == Init /\ [][NextLink]_vars

\* the joined nodes under the scheduling of the recovery path:
\* missing_reporter is a `while True` loop that wakes after every
\* MISSING_CHECK_INTERVAL (data.py:253-254), so a request that stays due is
\* sent; the resend server and the read of its response may be cut short
\* by a failed round trip, but a round trip that is tried again and again
\* goes through: recovery connections succeed.
FairLink ==
    /\ SpecLink
    /\ WF_vars(ReporterRequest)
    /\ SF_vars(HandleResend)
    /\ SF_vars(ReporterResponse)

\* ---- the viewer backend: the pipe listener, two concurrent imports and
\* a reader, interleaved statement by statement
NextHist ==
    \/ \E t \in Writers : Decode(t)
    \/ \E t \in Readers : Query(t)
    \/ \E t \in Threads : Acquire(t)
    \/ \E t \in Writers : AppendRecord(t)
    \/ \E t \in Writers : Trim(t)
    \/ \E t \in Readers : Copy(t)
    \/ \E t \in Threads : Release(t)
    \/ \E t \in Writers : Broadcast(t)

SpecHist == InitViewer /\ [][NextHist]_vars

\* ---- the SSE broker: the pipe listener and one import publish while
\* client A reads its stream and client B does not
Publishers == { "pipe", "import1" }

NextSse ==
    \/ \E c \in Clients : Subscribe(c)
    \/ \E c \in Clients : Get(c)
    \/ \E t \in Publishers : Decode(t)
    \/ \E t \in Publishers : Acquire(t)
    \/ \E t \in Publishers : AppendRecord(t)
    \/ \E t \in Publishers : Trim(t)
    \/ \E t \in Publishers : Release(t)
    \/ \E t \in Publishers : Broadcast(t)
    \/ \E t \in Publishers : Put(t)

SpecSse == InitViewer /\ [][NextSse]_vars

\* ---- the streaming connections from request to teardown, with the pipe
\* listener publishing
NextStream ==
    \/ \E c \in Clients : SseStream(c)
    \/ \E c \in Clients : StreamConnected(c)
    \/ \E c \in Clients : StreamLoop(c)
    \/ \E c \in Clients : StreamGet(c)
    \/ \E c \in Clients : StreamClose(c)
    \/ Decode("pipe")
    \/ Acquire("pipe")
    \/ AppendRecord("pipe")
    \/ Trim("pipe")
    \/ Release("pipe")
    \/ Broadcast("pipe")
    \/ Put("pipe")

SpecStream == InitViewer /\ [][NextStream]_vars

\* ---- _sse_unsubscribe called on any handle at any time
NextUnsub ==
    \/ \E c \in Clients : Subscribe(c)
    \/ \E c \in Clients : Get(c)
    \/ \E c \in Clients : UnsubscribeCall(c)
    \/ Decode("pipe")
    \/ Acquire("pipe")
    \/ AppendRecord("pipe")
    \/ Trim("pipe")
    \/ Release("pipe")
    \/ Broadcast("pipe")
    \/ Put("pipe")

SpecUnsub == InitViewer /\ [][NextUnsub]_vars

\* ---- update_table applied to every snapshot and every argument
InitQuery ==
    /\ now = 0
    /\ tcp = [ st |-> "closed", req |-> << >>, resp |-> << >> ]
    /\ InitCar
    /\ InitBase
    /\ InitHist
    /\ query \in Queries
    /\ table = NoTable
    /\ backend \in { b \in Backends : b.IS_REDIS_ACTIVE }
    /\ InitBackend
    /\ InitWs
    /\ InitProc

NextQuery == UpdateTable

SpecQuery == InitQuery /\ [][NextQuery]_vars

\* ---- the nodes' backends after a startup with or without Redis
InitNodes ==
    /\ now = 0
    /\ tcp = [ st |-> "closed", req |-> << >>, resp |-> << >> ]
    /\ InitCar
    /\ InitBase
    /\ InitHist
    /\ query = NoQuery
    /\ table = NoTable
    /\ backend \in Backends
    /\ InitBackend
    /\ InitWs
    /\ InitProc

NextBackend ==
    \/ \E reader, ok \in BOOLEAN : CanserverBroadcast(reader, ok)
    \/ \E ok \in BOOLEAN : TelemetryPublish(ok)

SpecBackend == InitNodes /\ [][NextBackend]_vars

\* ---- the WebSocket bridge: clients come and go while messages arrive
NextWs ==
    \/ \E c \in WsClients : WsConnect(c)
    \/ \E c \in WsClients : WsClose(c)
    \/ \E ch \in WsChannels : RedisPublish(ch)
    \/ ListenerTake
    \/ \E c \in WsClients, ok \in BOOLEAN : ListenerSend(c, ok)

SpecWs == Init /\ [][NextWs]_vars

\* ---- the car node until the supervisor terminates it
NextShutdown ==
    \/ Running(Tick)
    \/ Running(CanReader)
    \/ Running(SenderGet)
    \/ Running(SenderTimeout)
    \/ Running(ClientRequest)
    \/ Running(HandleResend)
    \/ Running(ClientClose)
    \/ Terminate

SpecShutdown == Init /\ [][NextShutdown]_vars

\* ---- the car node's three tasks on one event loop
NextLoop ==
    \/ \E opened \in BOOLEAN : ReaderStart(opened)
    \/ HwRecv
    \/ HwRaise
    \/ HwTick
    \/ SimReader
    \/ OnLoop(Tick)
    \/ OnLoop(SenderGet)
    \/ OnLoop(SenderTimeout)
    \/ ClientRequest
    \/ OnLoop(HandleResend)
    \/ ClientClose

SpecLoop == Init /\ [][NextLoop]_vars

\* the event loop runs every task that is ready (asyncio's FIFO ready
\* queue), and time passes
FairLoop ==
    /\ SpecLoop
    /\ WF_vars(\E opened \in BOOLEAN : ReaderStart(opened))
    /\ WF_vars(HwTick)
    /\ WF_vars(OnLoop(Tick))
    /\ WF_vars(OnLoop(SenderGet))
    /\ WF_vars(OnLoop(SenderTimeout))
    /\ WF_vars(OnLoop(HandleResend))

\* ---- the Sender and its queue, in a loop that suspends: frames arrive
\* while a timeout still fits before the last instant, the event loop runs udp_sender whenever its
\* wait_for() can return, and time passes
NextSender ==
    \/ Tick
    \/ now + BATCH_TIMEOUT <= MaxTime /\ CanReader
    \/ SenderGet
    \/ SenderTimeout

SpecSender == Init /\ [][NextSender]_vars

FairSender ==
    /\ SpecSender
    /\ WF_vars(Tick)
    /\ WF_vars(SenderGet)
    /\ WF_vars(SenderTimeout)

\* ---- the Sender and one burst of fewer than BATCH_SIZE frames, put on
\* the queue at any instant of the Sender's idle loop, with nothing after
NextBurst ==
    \/ Tick
    \/ \E k \in 1..(BATCH_SIZE - 1) : Burst(k)
    \/ SenderGet
    \/ SenderTimeout

SpecBurst == Init /\ [][NextBurst]_vars

Spec == SpecLink

(***************************************************************************)
(* Properties of the car node                                              *)
(***************************************************************************)
RECURSIVE Flatten(_)
Flatten(batches) ==
    IF batches = << >> THEN << >>
    ELSE Head(batches).batch \o Flatten(Tail(batches))

\* C1: the batches emitted in one sender session carry the sequence
\* numbers 1, 2, 3, ... in emission order, with no gap and no reuse,
\* whether or not the UDP send of a batch succeeded.
C1_SeqContiguous ==
    /\ \A i \in 1..Len(emitted) : emitted[i].seq = i
    /\ seq_num = Len(emitted)

\* three batches were emitted and the send of an earlier one failed
C1_Witness ==
    /\ Len(emitted) >= 3
    /\ \E i \in 1..(Len(emitted) - 1) : ~emitted[i].sent

\* C2: every frame taken from the queue lies in exactly one batch, and
\* the emitted batches, concatenated in sequence order and followed by the
\* pending list, are the frames in the order they were taken.
C2_BatchesPartitionTaken ==
    /\ Flatten(emitted) \o batch = taken
    /\ \A i, j \in 1..Len(taken) : taken[i].n = taken[j].n => i = j

\* two batches were emitted, one of them with more than one frame
C2_Witness ==
    /\ Len(emitted) >= 2
    /\ \E i \in 1..Len(emitted) : Len(emitted[i].batch) >= 2

\* C6: a lookup of a retained sequence returns the frames of the batch
\* emitted under that sequence, in order; no two ring entries share a
\* sequence; a resend response carries those frames for each entry.
C6_RingVerbatim ==
    /\ \A i \in 1..Len(buffer) :
         /\ buffer[i].seq \in 1..Len(emitted)
         /\ BufferLookup(buffer, buffer[i].seq) = emitted[buffer[i].seq].batch
         /\ \A j \in 1..Len(buffer) : buffer[j].seq = buffer[i].seq => i = j
    /\ tcp.st = "resp" =>
         \A k \in 1..Len(tcp.resp) :
           /\ tcp.resp[k].seq \in 1..Len(emitted)
           /\ tcp.resp[k].msgs =
                [ i \in 1..Len(emitted[tcp.resp[k].seq].batch) |->
                    ResendMsg(emitted[tcp.resp[k].seq].batch[i]) ]

\* a response was served from a ring that holds two batches after a sweep
\* has removed an older one
C6_Witness ==
    /\ tcp.st = "resp"
    /\ Len(tcp.resp) >= 2
    /\ Len(buffer) >= 2
    /\ Len(buffer) < Len(emitted)

\* the batch emitted under sequence i has left the ring only by the sweep
\* of a later emission, made when it was older than BUFFER_DURATION
SweptOnly(i) ==
    \/ /\ InBuffer(buffer, i)
       /\ BufferLookup(buffer, i) = emitted[i].batch
    \/ \E j \in (i + 1)..Len(emitted) :
         emitted[j].time - emitted[i].time > BUFFER_DURATION

\* C18: a batch whose UDP send failed keeps its sequence number and is
\* stored in the ring under it like any other; the sender goes on, the
\* next batch takes the next sequence number, and a resend request that
\* names the failed sequence while it is in the ring is answered with its
\* frames.
C18_FailedSendRetained ==
    /\ [](\A i \in 1..Len(emitted) :
            ~emitted[i].sent =>
              /\ emitted[i].seq = i
              /\ Datagram(i, emitted[i].batch) \notin net
              /\ SweptOnly(i)
              /\ i < Len(emitted) => emitted[i + 1].seq = i + 1
              /\ i = Len(emitted) => seq_num = i)
    /\ [][ (tcp.st = "req" /\ tcp'.st = "resp") =>
            \A k \in 1..Len(tcp.req) :
              (/\ tcp.req[k] \in 1..Len(emitted)
               /\ ~emitted[tcp.req[k]].sent
               /\ InBuffer(buffer, tcp.req[k]))
                => \E r \in 1..Len(tcp'.resp) :
                     /\ tcp'.resp[r].seq = tcp.req[k]
                     /\ tcp'.resp[r].msgs =
                          [ m \in 1..Len(emitted[tcp.req[k]].batch) |->
                              ResendMsg(emitted[tcp.req[k]].batch[m]) ] ]_vars

\* the send of batch 1 failed, the sender went on to emit batch 2, and a
\* resend request for sequence 1 was answered with its frames
C18_Witness ==
    /\ Len(emitted) >= 2
    /\ ~emitted[1].sent
    /\ emitted[2].seq = 2
    /\ tcp.st = "resp"
    /\ \E r \in 1..Len(tcp.resp) :
         /\ tcp.resp[r].seq = 1
         /\ tcp.resp[r].msgs # << >>

\* C7: no ring entry older than BUFFER_DURATION plus one sender loop
\* period (BATCH_TIMEOUT) is served by the resend server.
C7_ServedAgeBounded ==
    served_age <= BUFFER_DURATION + BATCH_TIMEOUT

(***************************************************************************)
(* Properties of the base node                                             *)
(***************************************************************************)
\* C3: a sequence whose frames were already published, by datagram or by
\* recovery, is not published again when its datagram is delivered again.
C3_NoRepublish ==
    \A i, j \in 1..Len(published) :
      published[i].seq = published[j].seq => i = j

\* C4, as claimed: delivered, missing and capped-out sequences together
\* are the whole range from 1 to the largest sequence processed.
C4_CoversFromOne ==
    first_seq # NoSeq =>
      delivered \cup missing_seqs \cup evicted = 1..SetMax(seen)

\* C4, amended: delivered, missing and capped-out sequences together are
\* the range from the first sequence processed to the largest one, plus
\* the sequences below the first that came later as datagrams; nothing
\* below the first sequence is ever recorded as missing.
C4_CoversFromFirst ==
    first_seq # NoSeq =>
      /\ delivered \cup missing_seqs \cup evicted =
           (first_seq..SetMax(seen)) \cup { s \in seen : s < first_seq }
      /\ missing_seqs \cup evicted \subseteq first_seq..SetMax(seen)

\* the first datagram was not sequence 1, and since then a gap was
\* recorded, the cap dropped a sequence, and a sequence was recovered
C4_Witness ==
    /\ first_seq > 1
    /\ missing_seqs # {}
    /\ evicted # {}
    /\ delivered \ seen # {}

\* C8: missing_seqs never holds more than MISSING_MAX sequences, and every
\* sequence the cap dropped is smaller than every sequence still held.
C8_MissingBounded ==
    /\ Cardinality(missing_seqs) <= MISSING_MAX
    /\ \A e \in evicted : \A m \in missing_seqs : e < m

\* one datagram opened a gap larger than MISSING_MAX; the set is full and
\* the cap has dropped sequences
C8_Witness ==
    /\ stats.received = 1
    /\ stats.missing > MISSING_MAX
    /\ evicted # {}
    /\ Cardinality(missing_seqs) = MISSING_MAX

\* the length of a datagram does not fit its header (spec 4.4)
Malformed(d) == d.len < 10 \/ d.len # 10 + 20 * d.count

\* C15: a datagram shorter than 10 bytes, or whose length is not
\* 10 + 20 * count, publishes nothing and leaves expected_seq and
\* missing_seqs as they were.
C15_MalformedRejected ==
    [][ (ndeliv' # ndeliv /\ Malformed(last_dgram'))
          => UNCHANGED << published, expected_seq, missing_seqs >> ]_vars

\* C16: a well-formed datagram whose sequence is below expected_seq minus
\* MISSING_MAX publishes nothing and leaves the receiver state as it was.
C16_LateDropped ==
    [][ (/\ ndeliv' # ndeliv
         /\ ~Malformed(last_dgram')
         /\ expected_seq # NoSeq
         /\ last_dgram'.seq < expected_seq - MISSING_MAX)
          => UNCHANGED << published, expected_seq, missing_seqs >> ]_vars

\* C17: an anchored receiver that processes a well-formed datagram more
\* than twice MISSING_MAX away from expected_seq, backward or forward,
\* clears missing_seqs and expects the sequence after it.
C17_Resync ==
    [][ (/\ ndeliv' # ndeliv
         /\ ~Malformed(last_dgram')
         /\ expected_seq # NoSeq
         /\ \/ last_dgram'.seq - expected_seq > MISSING_MAX * 2
            \/ expected_seq - last_dgram'.seq > MISSING_MAX * 2)
          => /\ missing_seqs' = {}
             /\ expected_seq' = last_dgram'.seq + 1 ]_vars

\* C19: a recovery cycle that fails (connection refused, empty or
\* unparsable response) publishes nothing, removes nothing from
\* missing_seqs and leaves the counters alone; the task returns to its
\* sleep, from where it can request again; and the next request names
\* every sequence of the failed one that is still missing and still among
\* the newest RESEND_MAX.
C19_FailedCycleRetried ==
    /\ [][ (reporter = "read" /\ reporter' = "sleep" /\ failed_req' # << >>)
            => UNCHANGED << missing_seqs, published, stats >> ]_vars
    /\ [][ (reporter = "sleep" /\ reporter' = "read" /\ failed_req # << >>)
            => \A s \in Range(failed_req) \cap missing_seqs :
                 \/ s \in Range(tcp'.req)
                 \/ Cardinality({ m \in missing_seqs : m > s })
                      >= RESEND_MAX ]_vars
    /\ []((reporter = "sleep" /\ missing_seqs # {} /\ tcp.st = "closed")
            => ENABLED ReporterRequest)

\* after a failed cycle the next one has sent the same request, something
\* having been published before and nothing recovered meanwhile
C19_Witness ==
    /\ reporter = "read"
    /\ tcp.st = "req"
    /\ failed_req # << >>
    /\ tcp.req = failed_req
    /\ published # << >>
    /\ stats.recovered = 0

\* C20: a query that names its filter_mode returns
\* take(limit, reverse(filter(window(history)))): the window is every
\* record (all), the newest min(time_range, len(history)) records
\* (count), or the records whose received or source timestamp is at least
\* now - time_range; the filters keep the records whose can_id and
\* message_name are the ones asked for.
C20_QueryResult ==
    (table # NoTable /\ query.filter_mode # "") =>
      LET h == query.snapshot
          window ==
            CASE query.filter_mode = "all" -> h
              [] query.filter_mode = "count" ->
                   SubSeq(h, Len(h) - Max(Min(query.time_range, Len(h)), 0) + 1,
                          Len(h))
              [] query.filter_mode = "received_time" ->
                   SelectSeq(h, LAMBDA r :
                     r.received_timestamp >= query.at - query.time_range)
              [] OTHER ->
                   SelectSeq(h, LAMBDA r :
                     r.timestamp >= query.at - query.time_range)
          kept ==
            SelectSeq(window, LAMBDA r :
              /\ query.can_id = "" \/ ToString(r.can_id) = query.can_id
              /\ query.message_name = ""
                   \/ r.message_name = query.message_name)
          newest == [ i \in 1..Len(kept) |-> kept[Len(kept) + 1 - i] ]
      IN  /\ table.st = "returned"
          /\ table.rows = SubSeq(newest, 1, Min(TABLE_LIMIT, Len(newest)))

\* the sum of one counter over the first k system_stats messages
RECURSIVE SumLog(_, _)
SumLog(key, k) ==
    IF k = 0 THEN 0 ELSE stats_log[k][key] + SumLog(key, k - 1)

C5_RecoveredEqualsEmitted ==
    \A k \in 1..Len(published) :
      published[k].via = "tcp" =>
        /\ published[k].seq \in 1..Len(emitted)
        /\ published[k].msgs =
             ParseMsgs(Datagram(published[k].seq,
                                emitted[published[k].seq].batch))

\* C13: every message published on can_messages, from a datagram or from
\* a recovery response, is a non-empty list whose elements have exactly the
\* fields time, canId and data, data being a list of PAYLOAD_WIDTH bytes.
C13_PublishedShape ==
    \A k \in 1..Len(published) :
      /\ published[k].msgs # << >>
      /\ \A i \in 1..Len(published[k].msgs) :
           /\ DOMAIN published[k].msgs[i] = { "time", "canId", "data" }
           /\ Len(published[k].msgs[i].data) = PAYLOAD_WIDTH

\* the frames of the batch emitted under sequence S have been published:
\* one publication carries them, frame for frame, in batch order
FramesPublished(S) ==
    /\ S \in 1..Len(emitted)
    /\ \E k \in 1..Len(published) :
         /\ published[k].seq = S
         /\ Len(published[k].msgs) = Len(emitted[S].batch)
         /\ \A i \in 1..Len(emitted[S].batch) :
              /\ published[k].msgs[i].canId = emitted[S].batch[i].can_id
              /\ published[k].msgs[i].time =
                   TimeMs(emitted[S].batch[i].timestamp)

C10_HistoryBounded ==
    /\ \A r \in Readers :
         /\ pc[r] \in { "copy", "release" }
              => Len(CAN_MESSAGES) <= MESSAGE_HISTORY_LIMIT
         /\ Len(messages[r]) <= MESSAGE_HISTORY_LIMIT
    /\ lock = "free" => Len(CAN_MESSAGES) <= MESSAGE_HISTORY_LIMIT

\* a reader has copied a full history whose oldest record was already
\* popped, while a writer waits for the lock
C10_Witness ==
    \E r \in Readers :
      /\ pc[r] = "release"
      /\ Len(messages[r]) = MESSAGE_HISTORY_LIMIT
      /\ Len(appended) > MESSAGE_HISTORY_LIMIT
      /\ messages[r][1].n = appended[2]
      /\ \E w \in Writers : pc[w] = "acquire"

\* a frame is in a handler that has not yet appended its record
InHandler(n) ==
    \E t \in Writers : pc[t] \in { "acquire", "append" } /\ decoded[t].n = n

\* C11: every frame that reached the decoder, once its handler is past
\* the append, has exactly one record in the sequence of records appended
\* to the history: none is dropped and none is appended twice.
C11_OneRecordPerFrame ==
    \A n \in 1..nmsgs :
      ~InHandler(n) =>
        Cardinality({ i \in 1..Len(appended) : appended[i] = n }) = 1

\* C12: with a subscriber that never reads, no queue grows past
\* SSE_QUEUE_MAX; every record whose broadcast has returned was enqueued
\* to each subscriber of its snapshot unless that subscriber's own queue
\* was full at that moment; each subscriber gets the records of one
\* publisher in the order that publisher took them; and a broadcast that
\* has clients left to serve can always take its next turn.
C12_StuckSubscriberHarmless ==
    /\ \A c \in Clients : Len(sse_q[c]) <= SSE_QUEUE_MAX
    /\ \A c \in Clients : \A n \in done :
         << n, c >> \in offered =>
           \/ \E i \in 1..Len(sent[c]) : sent[c][i].n = n
           \/ \E r \in refused[c] : r.n = n
    /\ \A c \in Clients : \A r \in refused[c] :
         /\ r.len = SSE_QUEUE_MAX
         /\ \A i \in 1..Len(sent[c]) : sent[c][i].n # r.n
    /\ \A c \in Clients : \A i, j \in 1..Len(sent[c]) :
         (i < j /\ sent[c][i].src = sent[c][j].src)
           => sent[c][i].n < sent[c][j].n
    /\ \A t \in Publishers : pc[t] = "put" => ENABLED Put(t)

\* scenario S5 at the model's scale: B's queue is full and has refused a
\* record that A was given; A was refused nothing and has read
C12_Witness ==
    /\ Len(sse_q["B"]) = SSE_QUEUE_MAX
    /\ refused["A"] = {}
    /\ \E r \in refused["B"] :
         /\ r.n \in done
         /\ \E i \in 1..Len(sent["A"]) : sent["A"][i].n = r.n
    /\ Len(sent["A"]) > Len(sse_q["A"])
    /\ Len(sent["A"]) > SSE_QUEUE_MAX

\* C21: a call of _sse_unsubscribe raises nothing and takes its handle,
\* and nothing else, out of the registry; on a handle that is not
\* registered (a second call, or one never subscribed) it leaves the
\* registry as it is; no queue is touched.
C21_UnsubscribeIdempotent ==
    [][ unsub'.calls # unsub.calls =>
          /\ unsub'.raised = ""
          /\ unsub'.q \notin SSE_CLIENTS'
          /\ \A d \in Clients \ { unsub'.q } :
               d \in SSE_CLIENTS' <=> d \in SSE_CLIENTS
          /\ unsub'.q \notin SSE_CLIENTS => SSE_CLIENTS' = SSE_CLIENTS
          /\ sse_q' = sse_q ]_vars

\* the third call was made on a handle that the second had removed,
\* with the other client subscribed and holding an event
C21_Witness ==
    /\ unsub.calls = MaxUnsubscribes
    /\ unsub.q = "A"
    /\ SSE_CLIENTS = { "B" }
    /\ sent["A"] # << >>
    /\ sse_q["B"] # << >>

\* C22: once a streaming connection has been torn down, its queue is no
\* longer in the registry, wherever the generator stood when the client
\* went away.
C22_TeardownUnsubscribes ==
    \A c \in Clients : stream[c] = "closed" => c \notin SSE_CLIENTS

\* C23: after a startup that could not open Redis, every batch a node
\* flushes while a consumer reads the FIFO, and whose write meets no I/O
\* error, is written to the FIFO; and whatever startup found, no batch is
\* written to both backends.
C23_FifoFallback ==
    \A i \in 1..Len(flushed) :
      LET b == flushed[i].batch
      IN  /\ ~backend.IS_REDIS_ACTIVE =>
               /\ b \notin Range(redis_out)
               /\ (flushed[i].reader /\ flushed[i].ok)
                    => b \in Range(pipe_out)
          /\ ~(b \in Range(redis_out) /\ b \in Range(pipe_out))

\* the messages of sequence s taken in order of their numbers
Increasing(s) == \A i, j \in 1..Len(s) : i < j => s[i].n < s[j].n

\* C24: the listener takes the published messages in publication order;
\* each client receives, unchanged and in that order, messages the
\* listener took while the client was connected; once the sends of a
\* message are over, every client connected when it was taken has it
\* unless its own send failed; and no send failure stops the listener.
C24_BridgeForwards ==
    /\ listener.st # "stopped"
    /\ \A k \in 1..Len(ws_log) : ws_log[k].msg.n = k
    /\ \A c \in WsClients :
         /\ Increasing(ws_recv[c])
         /\ \A i \in 1..Len(ws_recv[c]) :
              LET m == ws_recv[c][i]
              IN  /\ m.n \in 1..Len(ws_log)
                  /\ ws_log[m.n].msg = m
                  /\ c \in ws_log[m.n].to \ ws_log[m.n].failed
    /\ \A k \in 1..Len(ws_log) :
         (k < Len(ws_log) \/ listener.st = "listen") =>
           \A c \in ws_log[k].to \ ws_log[k].failed :
             ws_log[k].msg \in Range(ws_recv[c])
    /\ (listener.st = "listen" /\ pubsub # << >>) => ENABLED ListenerTake

\* a can_messages message was sent to both clients, the send to one of
\* them failed, the other has it, and the listener has forwarded a later
\* message since
C24_Witness ==
    /\ Len(ws_log) >= 2
    /\ ws_log[1].msg.channel = "can_messages"
    /\ ws_log[1].to = WsClients
    /\ ws_log[1].failed = { "w1" }
    /\ ws_log[1].msg \in Range(ws_recv["w2"])
    /\ ws_log[2].msg \in Range(ws_recv["w2"])
    /\ listener.st = "listen"

\* the frames the Sender took from the queue that are in no emitted batch
Unemitted ==
    { i \in 1..Len(taken) :
        ~\E e \in 1..Len(emitted) : taken[i] \in Range(emitted[e].batch) }

\* C25: when the telemetry process has been shut down, the frames the
\* Sender held pending have gone out in a final batch: every frame it
\* took from the queue is in an emitted, retained batch.
C25_FinalBatch ==
    p_telemetry = "terminated" =>
        /\ Unemitted = {}
        /\ emitted # << >> => InBuffer(buffer, emitted[Len(emitted)].seq)

\* frame n has been put on the queue / is in an emitted batch
Queued(n) == nframes >= n

EmittedFrame(n) ==
    \E e \in 1..Len(emitted) :
        \E i \in 1..Len(emitted[e].batch) : emitted[e].batch[i].n = n

\* C26: in car mode, whichever branch the ingest loop runs in, every
\* frame put on the queue is eventually emitted and every resend request
\* is eventually answered.
C26_CarProgress ==
    /\ \A n \in 1..MaxFrames : Queued(n) ~> EmittedFrame(n)
    /\ (tcp.st = "req") ~> (tcp.st = "resp")

\* C27: at each return of the Sender's queue pop a batch is emitted if
\* and only if the pending buffer is non-empty and it has reached
\* BATCH_SIZE frames or BATCH_TIMEOUT has elapsed since the last
\* emission, the batch being the whole pending buffer; a pending frame
\* waits less than two timeouts after the last emission; no emitted batch
\* is empty; and every frame put on the queue is eventually emitted,
\* whether or not another frame follows.
C27_EmittedExactlyWhenDue ==
    /\ [][LET popped  == taken' # taken
              checked == popped \/ wait_start' # wait_start
              pending == IF popped
                         THEN Append(batch, taken'[Len(taken')])
                         ELSE batch
              due     == /\ pending # << >>
                         /\ \/ Len(pending) >= BATCH_SIZE
                            \/ now - last_send >= BATCH_TIMEOUT
          IN  /\ Len(emitted') # Len(emitted) <=> (checked /\ due)
              /\ Len(emitted') # Len(emitted) =>
                    /\ emitted' = Append(emitted, emitted'[Len(emitted')])
                    /\ emitted'[Len(emitted')].batch = pending
                    /\ batch' = << >>]_vars
    /\ [](batch # << >> => now - last_send < 2 * BATCH_TIMEOUT)
    /\ [](\A e \in 1..Len(emitted) : emitted[e].batch # << >>)
    /\ \A n \in 1..MaxFrames : Queued(n) ~> EmittedFrame(n)

\* the last frame, alone in its batch, went out on the timeout after a
\* full batch had gone out on its size, and the buffer is empty again
C27_Witness ==
    /\ nframes = MaxFrames
    /\ Len(emitted) = 2
    /\ Len(emitted[1].batch) = BATCH_SIZE
    /\ Len(emitted[2].batch) = 1
    /\ emitted[2].time - emitted[1].time >= BATCH_TIMEOUT
    /\ batch = << >>
    /\ queue = << >>

\* C28: a burst of fewer than BATCH_SIZE frames put at once on the queue
\* of an idle Sender with an empty pending buffer, and followed by no
\* other frame, goes out as one batch: no emitted batch holds fewer frames
\* than the burst, and there is at most one.
C28_BurstOneBatch ==
    /\ Len(emitted) <= 1
    /\ \A e \in 1..Len(emitted) : Len(emitted[e].batch) = nframes

\* C29: every emitted batch, every datagram and every ring entry holds
\* between 1 and BATCH_SIZE frames, and the pending buffer, which grows by
\* one frame before each emission check, holds fewer than BATCH_SIZE
\* between checks, so no check sees more than BATCH_SIZE.
C29_CountInRange ==
    /\ \A e \in 1..Len(emitted) :
         Len(emitted[e].batch) \in 1..BATCH_SIZE
    /\ \A d \in net :
         d.count \in 1..BATCH_SIZE /\ Len(d.frames) = d.count
    /\ \A i \in 1..Len(buffer) :
         Len(buffer[i].batch) \in 1..BATCH_SIZE
    /\ Len(batch) + 1 <= BATCH_SIZE

\* a full batch and a batch of one frame have been sent, the second is in
\* the ring, and more frames than a batch holds have arrived
C29_Witness ==
    /\ nframes > BATCH_SIZE
    /\ \E d \in net : d.count = BATCH_SIZE
    /\ \E d \in net : d.count = 1
    /\ \E e \in 1..Len(emitted) : Len(emitted[e].batch) = BATCH_SIZE
    /\ \E i \in 1..Len(buffer) : Len(buffer[i].batch) = 1

\* C30: the first datagram that passes the receiver's length check,
\* whatever its sequence s, sets expected_seq to s + 1, publishes the
\* frames it carries, and leaves missing_seqs and the missing counter as
\* they were.
C30_FirstAnchors ==
    [][(expected_seq = NoSeq /\ ndeliv' # ndeliv /\ last_dgram'.len >= 10) =>
         LET d == last_dgram'
         IN  /\ expected_seq' = d.seq + 1
             /\ missing_seqs' = missing_seqs
             /\ missing_seqs' = {}
             /\ stats'.missing = stats.missing
             /\ counted'.missing = 0
             /\ IF d.frames = << >>
                THEN published' = published
                ELSE /\ Len(published') = Len(published) + 1
                     /\ LET p == published'[Len(published')]
                        IN  /\ p.via = "udp"
                            /\ p.seq = d.seq
                            /\ Len(p.msgs) = Len(d.frames)
                            /\ \A i \in 1..Len(p.msgs) :
                                 /\ p.msgs[i].canId =
                                      Unpack(d.frames[i]).can_id
                                 /\ p.msgs[i].data =
                                      Unpack(d.frames[i]).data]_vars

\* the receiver was anchored by a datagram of sequence 3: it expects 4,
\* has published that datagram's frame and holds no gap
C30_Witness ==
    /\ ndeliv = 1
    /\ first_seq = 3
    /\ expected_seq = 4
    /\ missing_seqs = {}
    /\ counted.missing = 0
    /\ Len(published) = 1
    /\ published[1].seq = 3

\* the K largest members of a set of sequences
Newest(S, K) == { x \in S : Cardinality({ y \in S : y > x }) < K }

\* C31: when an anchored receiver processes a datagram of sequence seq,
\* with seq > expected_seq the set becomes the MISSING_MAX largest of its
\* members and expected_seq .. seq - 1, seq itself not being among them;
\* with seq = expected_seq the set is unchanged.
C31_GapRecorded ==
    [][(expected_seq # NoSeq /\ ndeliv' # ndeliv /\ last_dgram'.len >= 10) =>
         LET seq == last_dgram'.seq
         IN  /\ seq > expected_seq =>
                  /\ missing_seqs' =
                       Newest(missing_seqs \cup (expected_seq..(seq - 1)),
                              MISSING_MAX)
                  /\ seq \notin missing_seqs'
             /\ seq = expected_seq => missing_seqs' = missing_seqs]_vars

\* scenario S3: datagrams 1, 2, 3 and 5 have been processed, in that
\* order, and the set holds 4 alone
C31_Witness ==
    /\ ndeliv = 4
    /\ first_seq = 1
    /\ seen = { 1, 2, 3, 5 }
    /\ last_dgram.seq = 5
    /\ expected_seq = 6
    /\ missing_seqs = { 4 }

\* C32: once anchored, expected_seq never decreases and is 1 + the
\* largest sequence processed so far; every member of missing_seqs is
\* below expected_seq, and missing_seqs holds no sequence already
\* processed as a datagram or published by recovery.
C32_ExpectedAndMissing ==
    /\ [](expected_seq # NoSeq =>
            /\ seen # {}
            /\ expected_seq = 1 + SetMax(seen)
            /\ \A m \in missing_seqs : m < expected_seq
            /\ missing_seqs \cap (seen \cup delivered) = {})
    /\ [][expected_seq # NoSeq =>
            expected_seq' # NoSeq /\ expected_seq' >= expected_seq]_vars

\* a late datagram has been processed after a higher one, a recovered
\* sequence has been published, and a gap is still open
C32_Witness ==
    /\ expected_seq # NoSeq
    /\ last_dgram.seq + 1 < expected_seq
    /\ \E k \in 1..Len(published) : published[k].via = "tcp"
    /\ missing_seqs # {}
    /\ delivered \ seen # {}

\* C33: the reporter goes on to connect only with missing_seqs
\* non-empty, and the request it writes lists, in ascending order, the
\* RESEND_MAX largest members missing_seqs has when the request is built.
C33_RequestNewest ==
    [][/\ (reporter = "sleep" /\ reporter' = "connect") => missing_seqs # {}
       /\ (tcp.st # "req" /\ tcp'.st = "req") =>
            LET req == tcp'.req
            IN  /\ reporter = "connect"
                /\ Len(req) <= RESEND_MAX
                /\ \A i, j \in 1..Len(req) : i < j => req[i] < req[j]
                /\ Range(req) \subseteq missing_seqs
                /\ Range(req) = Newest(missing_seqs, RESEND_MAX)]_vars

\* a request is in flight that lists the newest missing sequence and
\* leaves an older one out
C33_Witness ==
    /\ tcp.st = "req"
    /\ Cardinality(missing_seqs) > RESEND_MAX
    /\ Len(tcp.req) = RESEND_MAX
    /\ Range(tcp.req) # missing_seqs
    /\ SetMax(missing_seqs) \in Range(tcp.req)

\* the sequences of the entries published through recovery, in order
TcpSeqs(pub) ==
    LET RECURSIVE Seqs(_)
        Seqs(q) == IF q = << >> THEN << >>
                   ELSE IF Head(q).via = "tcp"
                        THEN << Head(q).seq >> \o Seqs(Tail(q))
                        ELSE Seqs(Tail(q))
    IN  Seqs(pub)

\* the sequences of a response that are members of set M, in order
RespSeqsIn(resp, M) ==
    LET RECURSIVE Seqs(_)
        Seqs(q) == IF q = << >> THEN << >>
                   ELSE IF Head(q).seq \in M
                        THEN << Head(q).seq >> \o Seqs(Tail(q))
                        ELSE Seqs(Tail(q))
    IN  Seqs(resp)

\* C34: when a recovery response is processed (its entries are counted as
\* recovered), the entries published are
\* those whose sequence is in missing_seqs at that time, which then leave
\* the set; an entry whose sequence has left the set since the request
\* (its datagram arrived, or it was evicted) is not published.
C34_InjectOnlyMissing ==
    [][(tcp.st = "resp" /\ counted'.recovered # counted.recovered) =>
         /\ \/ published' = published
            \/ /\ Len(published') > Len(published)
               /\ SubSeq(published', 1, Len(published)) = published
         /\ TcpSeqs(published') =
              TcpSeqs(published) \o RespSeqsIn(tcp.resp, missing_seqs)
         /\ missing_seqs' =
              missing_seqs \ { tcp.resp[i].seq : i \in 1..Len(tcp.resp) }
         /\ \A i \in 1..Len(tcp.resp) :
              tcp.resp[i].seq \notin missing_seqs =>
                ~\E k \in (Len(published) + 1)..Len(published') :
                    published'[k].seq = tcp.resp[i].seq]_vars

\* a response returned a sequence whose datagram had arrived while the
\* request was in flight: the entry was counted and nothing was published
\* through recovery
C34_Witness ==
    /\ counted.recovered = 1
    /\ TcpSeqs(published) = << >>
    /\ reporter = "sleep"
    /\ tcp.st = "closed"
    /\ failed_req = << >>
    /\ missing_seqs = {}

\* the sequences of a request that are members of set M, in order
ReqSeqsIn(req, M) ==
    LET RECURSIVE Seqs(_)
        Seqs(q) == IF q = << >> THEN << >>
                   ELSE IF Head(q) \in M
                        THEN << Head(q) >> \o Seqs(Tail(q))
                        ELSE Seqs(Tail(q))
    IN  Seqs(req)

\* C35: the response to a request holds one entry for each requested
\* sequence that is in the ring when the request is handled, in request
\* order, with the frames of the ring entry, and no other entry (none at
\* all when no requested sequence is in the ring); one response is
\* written on a connection, which is then closed.
C35_ResponseFromRing ==
    [][/\ (tcp.st = "req" /\ tcp'.st = "resp") =>
            LET ring == { buffer[i].seq : i \in 1..Len(buffer) }
                resp == tcp'.resp
            IN  /\ [ i \in 1..Len(resp) |-> resp[i].seq ] =
                     ReqSeqsIn(tcp.req, ring)
                /\ \A i \in 1..Len(resp) :
                     \E j \in 1..Len(buffer) :
                        /\ buffer[j].seq = resp[i].seq
                        /\ Len(resp[i].msgs) = Len(buffer[j].batch)
                        /\ \A k \in 1..Len(resp[i].msgs) :
                             /\ resp[i].msgs[k].id = buffer[j].batch[k].can_id
                             /\ resp[i].msgs[k].t =
                                  buffer[j].batch[k].timestamp
       /\ tcp.st = "resp" => tcp'.st \in { "resp", "closed" }]_vars

\* sequences 2 and 1 were requested in that order with both in the ring
\* and came back in that order
C35_Witness ==
    /\ tcp.st = "resp"
    /\ tcp.req = << 2, 1 >>
    /\ Len(tcp.resp) = 2
    /\ tcp.resp[1].seq = 2
    /\ tcp.resp[2].seq = 1

\* C36: a sequence leaves missing_seqs only in a step that processes its
\* datagram, or that processes a recovery response holding it, or that
\* processes a datagram whose gap fills the set to MISSING_MAX with every
\* remaining member above it; a response that omits it leaves it there.
C36_StaysUntilResolved ==
    [][\A S \in missing_seqs :
         LET datagram == ndeliv' # ndeliv /\ last_dgram'.len >= 10
             response == tcp.st = "resp"
                           /\ counted'.recovered # counted.recovered
             returned == \E i \in 1..Len(tcp.resp) : tcp.resp[i].seq = S
         IN  /\ S \notin missing_seqs' =>
                  \/ datagram /\ last_dgram'.seq = S
                  \/ response /\ returned
                  \/ /\ datagram
                     /\ last_dgram'.seq > expected_seq
                     /\ Cardinality(missing_seqs') = MISSING_MAX
                     /\ \A m \in missing_seqs' : S < m
             /\ (tcp.st = "resp" /\ reporter' = "sleep" /\ ~returned) =>
                  S \in missing_seqs']_vars

\* a recovery cycle has returned sequence 5 and not sequence 3, which is
\* still in the set
C36_Witness ==
    /\ TcpSeqs(published) = << 5 >>
    /\ counted.recovered = 1
    /\ missing_seqs = { 3 }
    /\ reporter = "sleep"
    /\ tcp.st = "closed"

\* C37: what has been published is never reordered: every step leaves it
\* as it was or appends to it.  Processing a datagram that carries frames
\* appends one message with those frames in datagram order; processing a
\* recovery response appends only recovered messages, at the end, behind
\* whatever arrived before, higher sequences included.
C37_PublishedInProcessingOrder ==
    [][/\ Len(published') >= Len(published)
       /\ SubSeq(published', 1, Len(published)) = published
       /\ (ndeliv' # ndeliv /\ last_dgram'.len >= 10) =>
            LET d == last_dgram'
            IN  IF d.frames = << >>
                THEN published' = published
                ELSE /\ Len(published') = Len(published) + 1
                     /\ LET p == published'[Len(published')]
                        IN  /\ p.via = "udp"
                            /\ p.seq = d.seq
                            /\ Len(p.msgs) = Len(d.frames)
                            /\ \A i \in 1..Len(p.msgs) :
                                 /\ p.msgs[i].canId =
                                      Unpack(d.frames[i]).can_id
                                 /\ p.msgs[i].data =
                                      Unpack(d.frames[i]).data
                                 /\ p.msgs[i].time =
                                      TimeMs(Unpack(d.frames[i]).timestamp)
       /\ (ndeliv' = ndeliv) =>
            \A k \in (Len(published) + 1)..Len(published') :
                published'[k].via = "tcp"]_vars

\* a recovered sequence was published behind a higher sequence that had
\* arrived by datagram
C37_Witness ==
    \E j, k \in 1..Len(published) :
        /\ j < k
        /\ published[j].via = "udp"
        /\ published[k].via = "tcp"
        /\ published[k].seq < published[j].seq

\* the frames of the records the history holds, oldest first
HistoryFrames == [ i \in 1..Len(CAN_MESSAGES) |-> CAN_MESSAGES[i].n ]

\* the last k elements of a sequence that has at least k
LastOf(s, k) == SubSeq(s, Len(s) - k + 1, Len(s))

\* a writer has appended its record and not yet run the length test
MidAppend == \E t \in Writers : pc[t] = "trim"

\* C38: once every append made so far has run its length test, the history
\* holds the most recent min(n, MESSAGE_HISTORY_LIMIT) of the n records
\* appended by the pipe listener and the imports, in the order they were
\* appended; and a step that removes from the history removes its oldest
\* record only, and only when the history is longer than the limit.
C38_HistoryIsRecentAppends ==
    /\ [](~MidAppend =>
            HistoryFrames =
              LastOf(appended,
                     IF Len(appended) < MESSAGE_HISTORY_LIMIT
                     THEN Len(appended) ELSE MESSAGE_HISTORY_LIMIT))
    /\ [][ \/ CAN_MESSAGES' = CAN_MESSAGES
           \/ /\ Len(CAN_MESSAGES') = Len(CAN_MESSAGES) + 1
              /\ SubSeq(CAN_MESSAGES', 1, Len(CAN_MESSAGES)) = CAN_MESSAGES
           \/ /\ Len(CAN_MESSAGES) > MESSAGE_HISTORY_LIMIT
              /\ CAN_MESSAGES' = Tail(CAN_MESSAGES) ]_vars

\* two records beyond the limit were appended, by writers that took the
\* lock in another order than they decoded, and the history is at rest
C38_Witness ==
    /\ ~MidAppend
    /\ lock = "free"
    /\ Len(appended) >= MESSAGE_HISTORY_LIMIT + 2
    /\ Len(CAN_MESSAGES) = MESSAGE_HISTORY_LIMIT
    /\ \E i, j \in 1..Len(appended) : i < j /\ appended[i] > appended[j]

\* thread t takes its snapshot of the registry in this step
TakesSnapshot(t) == pc[t] = "broadcast" /\ pc'[t] # "broadcast"

\* thread t runs one turn of the loop of sse_broadcast in this step
TakesTurn(t) == pc[t] = "put" /\ clients'[t] # clients[t]

\* C39: no subscription queue ever holds more than SSE_QUEUE_MAX
\* messages. A put that is refused happens on a queue that holds
\* SSE_QUEUE_MAX messages; it leaves that queue, every other queue and the
\* registry as they are, and the broadcast goes on to the rest of its
\* snapshot. A subscription that has refused a payload is still in every
\* later snapshot, and a turn that finds room in a queue appends the
\* payload to it whatever that queue refused before.
C39_FullQueueDropsOnly ==
    /\ [](\A c \in Clients : Len(sse_q[c]) <= SSE_QUEUE_MAX)
    /\ [][ \A t \in Publishers : TakesTurn(t) =>
             LET c == Head(clients[t])
             IN  /\ clients'[t] = Tail(clients[t])
                 /\ SSE_CLIENTS' = SSE_CLIENTS
                 /\ \A d \in Clients \ { c } :
                      sse_q'[d] = sse_q[d] /\ refused'[d] = refused[d]
                 /\ IF Len(sse_q[c]) < SSE_QUEUE_MAX
                    THEN /\ sse_q'[c] =
                              Append(sse_q[c], CanEvent(decoded[t], t))
                         /\ refused'[c] = refused[c]
                    ELSE /\ sse_q'[c] = sse_q[c]
                         /\ \E r \in refused'[c] : r.n = decoded[t].n ]_vars
    /\ [][ \A t \in Publishers : TakesSnapshot(t) =>
             Range(clients'[t]) = SSE_CLIENTS ]_vars

\* A's queue refused a record that B was given; A read, and a later
\* record of the same publisher was put on A's queue
C39_Witness ==
    /\ "A" \in SSE_CLIENTS
    /\ \E r \in refused["A"] :
       \E i \in 1..Len(sent["B"]) : \E j \in 1..Len(sent["A"]) :
         /\ sent["B"][i].n = r.n
         /\ sent["A"][j].src = sent["B"][i].src
         /\ sent["A"][j].n > r.n
         /\ \E k \in 1..Len(sse_q["A"]) : sse_q["A"][k] = sent["A"][j]

\* the place of frame n in the sequence of appends to the history
AppendIndex(n) == CHOOSE i \in 1..Len(appended) : appended[i] = n

\* C40: each subscriber was given its records in the order they were
\* appended to the history, and two subscribers that were both given the
\* same two records were given them in the same relative order.
C40_BroadcastInAppendOrder ==
    /\ \A c \in Clients : \A i, j \in 1..Len(sent[c]) :
         i < j => AppendIndex(sent[c][i].n) < AppendIndex(sent[c][j].n)
    /\ \A c, d \in Clients :
         \A i, j \in 1..Len(sent[c]) : \A k, l \in 1..Len(sent[d]) :
           (i < j /\ sent[c][i].n = sent[d][l].n /\ sent[c][j].n = sent[d][k].n)
             => l < k

=============================================================================
